---- MODULE Spec2Model ----
(***************************************************************************)
(* Packet objects, shared data buffers and the per-thread packet pools of  *)
(* lib/packet.cc (userlevel build with HAVE_CLICK_PACKET_POOL and          *)
(* HAVE_MULTITHREAD), together with the batch rings of click/ring.hh.      *)
(*                                                                         *)
(* A Packet object is a slot of the table pk, a data buffer a slot of the  *)
(* table bufs (slot 0 of either is the null address and is never used).   *)
(* The four buffer pointers of a packet are kept as the id of the buffer   *)
(* _head points to (buf, 0 for a null _head) and the offsets of _data,     *)
(* _tail and _end from _head.  Buffer memory is a partial function from    *)
(* byte offsets to the byte values that were written there; an offset      *)
(* outside its domain holds an undetermined byte.                          *)
(***************************************************************************)
EXTENDS Integers, Sequences, FiniteSets, TLC

(* ------------------------------ bounds ------------------------------- *)
MaxHandles == 5
MaxBufs == 3
MaxOps == 4
ClonesPerThread == 2
MaxRingSize == 3
MaxRingOps == 7
MaxConcOps == 4
MaxLifoOps == 5
MaxPoolOps == 3
MaxFullOps == 2
MaxBatch == 2
MaxRegThreads == 3
MaxRegCalls == 5
MaxDelay == 2
MaxEvents == 5
MaxShifts == 2
MaxXchgOps == 3
MaxSpscOps == 5

(* ------------------------- program constants ------------------------- *)
CLICK_PACKET_POOL_BUFSIZ == 2048
CLICK_PACKET_POOL_SIZE == 4096
CLICK_GLOBAL_PACKET_POOL_COUNT == 32
min_buffer_length == 64
PushSlack == 128

Handles == 1..MaxHandles
Bufs == 1..MaxBufs
(* the worker threads; the sequential specification runs on the first *)
Threads == {1, 2}
Main == {1}

(* 32-bit words.  A uint32_t or int32_t value is kept as the int32_t that  *)
(* has its bit pattern, so that a conversion between the two is the       *)
(* identity, + and - wrap modulo 2^32 and an unsigned comparison is ULt.   *)
MaxInt32 == 2147483647
Add32(a, b) ==
    IF a >= 0 /\ b >= 0 /\ a > MaxInt32 - b
    THEN ((a - MaxInt32) + (b - MaxInt32)) - 2
    ELSE IF a < 0 /\ b < 0 /\ a < ((-MaxInt32) - 1) - b
    THEN ((a + MaxInt32) + (b + MaxInt32)) + 2
    ELSE a + b
Neg32(a) == IF a = (-MaxInt32) - 1 THEN a ELSE -a
Sub32(a, b) == IF b = (-MaxInt32) - 1 THEN Add32(Add32(a, MaxInt32), 1)
               ELSE Add32(a, -b)
ULt(a, b) == IF (a >= 0) = (b >= 0) THEN a < b ELSE b < 0
ULe(a, b) == a = b \/ ULt(a, b)
(* unsigned a modulo n, for 0 < n < 2^31 *)
UMod(a, n) == IF a >= 0 THEN a % n
              ELSE ((a % n) + (((MaxInt32 % n) * 2 + 2) % n)) % n

(* A pointer is an offset from the start of its buffer.  Adding a         *)
(* uint32_t to it leaves the representable range when the word has its    *)
(* top bit set; such a pointer is kept as PtrFar, far outside any buffer. *)
PtrFar == MaxInt32
PtrAdd(p, u) == IF u < 0 \/ (p > 0 /\ u > MaxInt32 - p) THEN PtrFar ELSE p + u

(* ------------------------------ inputs ------------------------------- *)
(* make(headroom, data, length, tailroom): data = << >> is a null data;   *)
(* the tailroom -1 is the uint32_t 4294967295                             *)
MakeArgs ==
    { [headroom |-> 32,   data |-> <<1, 2>>, length |-> 2, tailroom |-> 32],
      [headroom |-> 2046, data |-> <<3, 4>>, length |-> 2, tailroom |-> 0],
      [headroom |-> 0,    data |-> <<5, 6>>, length |-> 2, tailroom |-> 3000],
      [headroom |-> 32,   data |-> <<1, 2>>, length |-> 2, tailroom |-> -1] }
(* make(data, length, destructor, argument) *)
ForeignArgs ==
    { [data |-> <<7, 8>>, length |-> 2, destructor |-> 1],
      [data |-> <<7, 8>>, length |-> 2, destructor |-> 0],
      [data |-> <<7, 8>>, length |-> CLICK_PACKET_POOL_BUFSIZ, destructor |-> 0] }
PushLens == {4}
ShiftOffsets == {0 - 1, 1}
PutLens == {1}
PullLens == {1}
TakeLens == {1}

(* ----------------------------- the state ----------------------------- *)
VARIABLES
    pk,        \* Packet objects: the memory of every WritablePacket address
    bufs,      \* data buffers: the memory of every buffer address
    pool,      \* thread_packet_pool of every thread
    pbatch,    \* global_packet_pool.pbatch
    pdbatch,   \* global_packet_pool.pdbatch
    held,      \* the packets the elements currently hold (not yet killed)
    rel,       \* the buffer releases performed by the last operation
    last,      \* the last operation, its arguments, result and pre-state
    nops,      \* number of operations performed
    conc,      \* the threads of the concurrent clone/kill scenario
    rg         \* a ring or stack of click/ring.hh on its own, and its users

vars == <<pk, bufs, pool, pbatch, pdbatch, held, rel, last, nops, conc, rg>>

EmptyMem == [o \in {} |-> 0]

PacketInit ==
    [alloc |-> FALSE, buf |-> 0, data |-> 0, tail |-> 0, end |-> 0,
     use_count |-> 0, data_packet |-> 0, destructor |-> 0,
     anno |-> 0, has_mac |-> FALSE, mac |-> 0,
     has_nh |-> FALSE, nh |-> 0, has_h |-> FALSE, h |-> 0]

(* dtor is the destructor the caller gave with a buffer of its own *)
BufInit ==
    [live |-> FALSE, cap |-> 0, foreign |-> FALSE, dtor |-> 0, mem |-> EmptyMem]

PoolInit == [p |-> << >>, pcount |-> 0, pd |-> << >>, pdcount |-> 0]

RingInit ==
    [ring |-> [i \in 0..(CLICK_GLOBAL_PACKET_POOL_COUNT - 1) |-> << >>],
     head |-> 0, tail |-> 0]

(* The state as one record, threaded through the operators below. *)
State ==
    [pk |-> pk, bufs |-> bufs, pool |-> pool, pbatch |-> pbatch,
     pdbatch |-> pdbatch, held |-> held, rel |-> {}, fail |-> FALSE]

(* ------------------------- packet accessors -------------------------- *)
headroom(P) == P.data
length(P) == P.tail - P.data
tailroom(P) == P.end - P.tail
buffer_length(P) == P.end
shared(P) == P.data_packet # 0 \/ ULt(1, P.use_count)

(* the bytes of [_data, _tail), by position in the window *)
Window(S, h) ==
    LET P == S.pk[h]
        m == IF P.buf = 0 THEN EmptyMem ELSE S.bufs[P.buf].mem
        D == {o \in DOMAIN m : P.data <= o /\ o < P.tail}
    IN [i \in {o - P.data : o \in D} |-> m[i + P.data]]

(* the packet whose use count guards the buffer of h *)
OwnerOf(S, h) == IF S.pk[h].data_packet # 0 THEN S.pk[h].data_packet ELSE h

(* ------------------------------ memory ------------------------------- *)
(* memcpy(dst + doff, src + soff, n) between two buffers' memories: the   *)
(* bytes written are the source's, undetermined where the source is; a    *)
(* write beyond the destination's allocation is not kept.                 *)
memcpy(dmem, dcap, doff, smem, soff, n) ==
    LET keep == {o \in DOMAIN dmem : o < doff \/ o >= doff + n}
        src == {o \in DOMAIN smem : soff <= o /\ o < soff + n
                                     /\ o - soff + doff < dcap}
    IN [o \in keep \cup {x - soff + doff : x \in src} |->
           IF o \in keep THEN dmem[o] ELSE smem[o - doff + soff]]

(* memcpy(dst + doff, bytes, Len(bytes)) from a caller's byte array *)
memcpy_in(dmem, dcap, doff, bytes) ==
    LET n == Len(bytes)
        keep == {o \in DOMAIN dmem : o < doff \/ o >= doff + n}
        new == {o \in doff..(doff + n - 1) : o >= 0 /\ o < dcap}
    IN [o \in keep \cup new |->
           IF o \in keep THEN dmem[o] ELSE bytes[o - doff + 1]]

(* new unsigned char[n] at address b; the memory keeps what it held *)
new_array(S, b, n) ==
    IF b = 0 \/ S.bufs[b].live
    THEN [S EXCEPT !.fail = TRUE]
    ELSE [S EXCEPT !.bufs[b] =
             [live |-> TRUE, cap |-> n, foreign |-> FALSE, dtor |-> 0,
              mem |-> [o \in {x \in DOMAIN S.bufs[b].mem : x < n} |->
                          S.bufs[b].mem[o]]]]

(* the live packets whose _head still points into buffer b *)
Referrers(S, b) == {h \in S.held : S.pk[h].buf = b}

(* delete[] _head, the destructor callback _destructor(_head, len, arg),  *)
(* or the hand-over of the buffer to a pool                               *)
release_buffer(S, b, len, how) ==
    IF b = 0 THEN S
    ELSE [S EXCEPT
            !.bufs[b].live = IF how = "pool" THEN @ ELSE FALSE,
            !.rel = @ \cup {[buf |-> b, how |-> how, len |-> len,
                             refs |-> Referrers(S, b),
                             waslive |-> S.bufs[b].live,
                             foreign |-> S.bufs[b].foreign,
                             dtor |-> S.bufs[b].dtor]}]

(* ------------------------------- rings ------------------------------- *)
has_space(r) == ULt(Sub32(r.head, r.tail), CLICK_GLOBAL_PACKET_POOL_COUNT)
is_empty(r) == r.head = r.tail

Ring_insert(r, batch) ==
    IF has_space(r)
    THEN [ok |-> TRUE,
          r |-> [r EXCEPT !.ring[UMod(r.head, CLICK_GLOBAL_PACKET_POOL_COUNT)] = batch,
                          !.head = Add32(@, 1)]]
    ELSE [ok |-> FALSE, r |-> r]

Ring_extract(r) ==
    IF ~is_empty(r)
    THEN [v |-> r.ring[UMod(r.tail, CLICK_GLOBAL_PACKET_POOL_COUNT)],
          r |-> [r EXCEPT !.tail = Add32(@, 1)]]
    ELSE [v |-> << >>, r |-> r]

(* BaseRing<T, RING_SIZE>: r has the fields ring, head and tail *)
BaseRing_has_space_strict(r, RING_SIZE) ==
    ULe(Sub32(r.head, r.tail), RING_SIZE)

BaseRing_has_space(r, RING_SIZE) == ULt(Sub32(r.head, r.tail), RING_SIZE)

count(r) == Sub32(r.head, r.tail)

BaseRing_insert(r, batch, RING_SIZE) ==
    IF BaseRing_has_space(r, RING_SIZE)
    THEN [ok |-> TRUE,
          r |-> [r EXCEPT !.ring[UMod(r.head, RING_SIZE)] = batch,
                          !.head = Add32(@, 1)]]
    ELSE [ok |-> FALSE, r |-> r]

(* extract() that advances tail also on an empty ring *)
BaseRing_extract_always(r, RING_SIZE) ==
    [v |-> IF ~is_empty(r) THEN r.ring[UMod(r.tail, RING_SIZE)] ELSE 0,
     r |-> [r EXCEPT !.tail = Add32(@, 1)]]

BaseRing_extract(r, RING_SIZE) ==
    IF ~is_empty(r)
    THEN [v |-> r.ring[UMod(r.tail, RING_SIZE)],
          r |-> [r EXCEPT !.tail = Add32(@, 1)]]
    ELSE [v |-> 0, r |-> r]

(* --------------------------- packet pools ---------------------------- *)
(* new WritablePacket at address h: "no initialization", the object keeps *)
(* whatever its memory held                                               *)
new_packet(S, h) ==
    IF h = 0 \/ S.pk[h].alloc
    THEN [S EXCEPT !.fail = TRUE]
    ELSE [S EXCEPT !.pk[h].alloc = TRUE]

(* the table f with every element worked out, so that an update or a read *)
(* of one element does not go through the rule that defines f             *)
Table(f) == CHOOSE g \in {f} : g = f

(* a full ring that keeps the packets of the list it refuses *)
delete_none(S, list) == S

(* ::operator delete of the packets list[lo..hi]: no destructor runs *)
RECURSIVE delete_range(_, _, _, _)
delete_range(S, list, lo, hi) ==
    IF S.fail \/ lo > hi THEN S
    ELSE IF lo = hi THEN [S EXCEPT !.pk[list[lo]].alloc = FALSE]
    ELSE delete_range(delete_range(S, list, lo, (lo + hi) \div 2),
                      list, (lo + hi) \div 2 + 1, hi)

(* ::operator delete of every packet of a list *)
delete_all(S, list) == delete_range(S, list, 1, Len(list))

initialize(P) ==
    [P EXCEPT !.use_count = 1, !.data_packet = 0, !.destructor = 0,
              !.anno = 0, !.has_mac = FALSE, !.mac = 0,
              !.has_nh = FALSE, !.nh = 0, !.has_h = FALSE, !.h = 0]

(* header offsets that stay where they were *)
shift_header_none(P, extra_headroom) == P

shift_header_annotations(P, extra_headroom) ==
    [P EXCEPT !.mac = IF P.has_mac THEN @ + extra_headroom ELSE @,
              !.nh = IF P.has_nh THEN @ + extra_headroom ELSE @,
              !.h = IF P.has_h THEN @ + extra_headroom ELSE @]

(* what new unsigned char[n] gives when the backend has no memory: the    *)
(* null pointer, written NoMem where an address is expected               *)
NoMem == 0 - 1

(* Packet::alloc_data(headroom, length, tailroom): false, and nothing     *)
(* assigned, when the backend has no memory                               *)
alloc_data(S, h, hroom, len, troom, nb) ==
    LET n0 == Add32(Add32(len, hroom), troom)
        n == IF ULt(n0, min_buffer_length) THEN min_buffer_length ELSE n0
        S1 == new_array(S, nb, n)
    IN IF nb = NoMem THEN S
       ELSE [S1 EXCEPT !.pk[h].buf = nb, !.pk[h].data = PtrAdd(0, hroom),
                       !.pk[h].tail = PtrAdd(PtrAdd(0, hroom), len),
                       !.pk[h].end = PtrAdd(0, n)]

(* pool_allocate() that always asks the backend *)
pool_allocate_fresh(S, t, nh) == [S |-> new_packet(S, nh), p |-> nh]

(* WritablePacket::pool_allocate(): a packet without a buffer *)
pool_allocate(S, t, nh) ==
    LET refill(x) ==
            IF x.v # << >>
            THEN [S EXCEPT !.pbatch = x.r,
                           !.pool[t].p = x.v,
                           !.pool[t].pcount = S.pk[Head(x.v)].anno]
            ELSE [S EXCEPT !.pbatch = x.r]
        take_first(S1) ==
            IF S1.pool[t].p # << >>
            THEN [S |-> [S1 EXCEPT !.pool[t].p = Tail(@),
                                   !.pool[t].pcount = Sub32(@, 1)],
                  p |-> Head(S1.pool[t].p)]
            ELSE [S |-> new_packet(S1, nh), p |-> nh]
    IN take_first(IF S.pool[t].p = << >>
                  THEN refill(Ring_extract(S.pbatch)) ELSE S)

(* WritablePacket::pool_data_allocate(): a packet with a standard buffer *)
pool_data_allocate(S, t, nh, nb) ==
    LET refill(x) ==
            IF x.v # << >>
            THEN [S EXCEPT !.pdbatch = x.r,
                           !.pool[t].pd = x.v,
                           !.pool[t].pdcount = S.pk[Head(x.v)].anno]
            ELSE [S EXCEPT !.pdbatch = x.r]
        take_first(S1) ==
            IF S1.pool[t].pd # << >>
            THEN [S |-> [S1 EXCEPT !.pool[t].pd = Tail(@),
                                   !.pool[t].pdcount = Sub32(@, 1)],
                  p |-> Head(S1.pool[t].pd)]
            ELSE [S |-> alloc_data(new_packet(S1, nh), nh,
                                   0, CLICK_PACKET_POOL_BUFSIZ, 0, nb),
                  p |-> nh]
    IN take_first(IF S.pool[t].pd = << >>
                  THEN refill(Ring_extract(S.pdbatch)) ELSE S)

(* pool_allocate(headroom, length, tailroom) without the initialize() of  *)
(* a packet taken from the data pool                                      *)
pool_allocate_sized_noinit(S, t, hroom, len, troom, nh, nb) ==
    LET n == Add32(Add32(hroom, len), troom)
        from_pool(r) ==
            [S |-> [r.S EXCEPT !.pk[r.p] =
                       [@ EXCEPT !.data = PtrAdd(0, hroom),
                                 !.tail = PtrAdd(PtrAdd(0, hroom), len),
                                 !.end = CLICK_PACKET_POOL_BUFSIZ,
                                 !.use_count = 1]],
             p |-> r.p, pooled |-> TRUE]
        sized(r) ==
            [S |-> [alloc_data(r.S, r.p, hroom, len, troom, nb)
                       EXCEPT !.pk[r.p] = initialize(@)],
             p |-> r.p, pooled |-> FALSE]
    IN IF ULe(n, CLICK_PACKET_POOL_BUFSIZ)
       THEN from_pool(pool_data_allocate(S, t, nh, nb))
       ELSE sized(pool_allocate(S, t, nh))

(* WritablePacket::pool_allocate(headroom, length, tailroom) *)
pool_allocate_sized(S, t, hroom, len, troom, nh, nb) ==
    LET n == Add32(Add32(hroom, len), troom)
        from_pool(r) ==
            [S |-> [r.S EXCEPT !.pk[r.p] =
                       initialize([@ EXCEPT
                           !.data = PtrAdd(0, hroom),
                           !.tail = PtrAdd(PtrAdd(0, hroom), len),
                           !.end = CLICK_PACKET_POOL_BUFSIZ])],
             p |-> r.p, pooled |-> TRUE]
        sized(r) ==
            [S |-> [alloc_data(r.S, r.p, hroom, len, troom, nb)
                       EXCEPT !.pk[r.p] = initialize(@)],
             p |-> r.p, pooled |-> FALSE]
    IN IF ULe(n, CLICK_PACKET_POOL_BUFSIZ)
       THEN from_pool(pool_data_allocate(S, t, nh, nb))
       ELSE sized(pool_allocate(S, t, nh))

(* recycle() without the spill of a full list *)
check_pool_size_none(S, t, data) == S

(* WritablePacket::check_pool_size(packet_pool, data), HAVE_MULTITHREAD *)
check_pool_size(S, t, data) ==
    LET P == S.pool[t]
        give(S1, list, x, isdata) ==
            LET S2 == IF x.ok
                      THEN IF isdata THEN [S1 EXCEPT !.pdbatch = x.r]
                           ELSE [S1 EXCEPT !.pbatch = x.r]
                      ELSE delete_all(S1, list)
            IN IF isdata
               THEN [S2 EXCEPT !.pool[t].pd = << >>, !.pool[t].pdcount = 0]
               ELSE [S2 EXCEPT !.pool[t].p = << >>, !.pool[t].pcount = 0]
    IN IF ~data /\ P.p # << >> /\ ULe(CLICK_PACKET_POOL_SIZE, P.pcount)
       THEN give([S EXCEPT !.pk[Head(P.p)].anno = P.pcount], P.p,
                 Ring_insert(S.pbatch, P.p), FALSE)
       ELSE IF P.pd # << >> /\ ULe(CLICK_PACKET_POOL_SIZE, P.pdcount)
       THEN give([S EXCEPT !.pk[Head(P.pd)].anno = P.pdcount], P.pd,
                 Ring_insert(S.pdbatch, P.pd), TRUE)
       ELSE S

is_from_data_pool(P) ==
    IF P.data_packet = 0 /\ P.buf # 0 /\ P.destructor = 0
    THEN P.end = CLICK_PACKET_POOL_BUFSIZ
    ELSE FALSE

RECURSIVE kill(_, _, _), recycle(_, _, _), destroy(_, _, _)

(* ~Packet() without the _data_packet->kill() of a clone *)
destroy_nokill(S, t, h) ==
    LET P == S.pk[h]
        clear(S1) == [S1 EXCEPT !.pk[h].buf = 0, !.pk[h].data = 0]
    IN clear(IF P.data_packet # 0 THEN S
             ELSE IF P.buf # 0 /\ P.destructor # 0
                  THEN release_buffer(S, P.buf, P.end, "callback")
             ELSE release_buffer(S, P.buf, P.end, "delete"))

(* Packet::~Packet() *)
destroy(S, t, h) ==
    LET P == S.pk[h]
        clear(S1) == [S1 EXCEPT !.pk[h].buf = 0, !.pk[h].data = 0]
    IN clear(IF P.data_packet # 0 THEN kill(S, t, P.data_packet)
             ELSE IF P.buf # 0 /\ P.destructor # 0
                  THEN release_buffer(S, P.buf, P.end, "callback")
             ELSE release_buffer(S, P.buf, P.end, "delete"))

(* WritablePacket::recycle(p) *)
recycle(S, t, h) ==
    LET data == is_from_data_pool(S.pk[h])
        to_pd(S2) == [S2 EXCEPT !.pool[t].pdcount = Add32(@, 1),
                                !.pool[t].pd = <<h>> \o @]
        to_p(S2) == [S2 EXCEPT !.pool[t].pcount = Add32(@, 1),
                               !.pool[t].p = <<h>> \o @]
        put_back(S1) ==
            IF data THEN to_pd(release_buffer(S1, S1.pk[h].buf, S1.pk[h].end, "pool"))
            ELSE to_p(destroy(S1, t, h))
    IN put_back(check_pool_size(S, t, data))

(* Packet::kill(): drop one reference, recycle the packet at zero *)
kill(S, t, h) ==
    IF Sub32(S.pk[h].use_count, 1) = 0
    THEN recycle([S EXCEPT !.pk[h].use_count = Sub32(@, 1)], t, h)
    ELSE [S EXCEPT !.pk[h].use_count = Sub32(@, 1)]

(* _use_count.dec_and_test() alone *)
dec_and_test(S, h) == [S EXCEPT !.pk[h].use_count = Sub32(@, 1)]

(* WritablePacket::recycle_batch(batch): the packets of the batch, first   *)
(* to last, are put in front of the list the first of them belongs to     *)
RECURSIVE destroy_each(_, _, _, _), hand_over_each(_, _, _)
destroy_each(S, t, batch, i) ==
    IF S.fail \/ i > Len(batch) THEN S
    ELSE destroy_each(destroy(S, t, batch[i]), t, batch, i + 1)
hand_over_each(S, batch, i) ==
    IF S.fail \/ i > Len(batch) THEN S
    ELSE hand_over_each(release_buffer(S, S.pk[batch[i]].buf,
                                       S.pk[batch[i]].end, "pool"),
                        batch, i + 1)
recycle_batch(S, t, batch) ==
    LET data == is_from_data_pool(S.pk[batch[1]])
        to_pd(S2) == [S2 EXCEPT !.pool[t].pdcount = Add32(@, Len(batch)),
                                !.pool[t].pd = batch \o @]
        to_p(S2) == [S2 EXCEPT !.pool[t].pcount = Add32(@, Len(batch)),
                               !.pool[t].p = batch \o @]
    IN IF data
       THEN to_pd(hand_over_each(check_pool_size(S, t, TRUE), batch, 1))
       ELSE to_p(check_pool_size(destroy_each(S, t, batch, 1), t, FALSE))

(* cleanup_pool(pp, global): ::operator delete of every packet of the two  *)
(* lists; the buffers of the packets are not touched                      *)
cleanup_pool(S, p, pd) == delete_all(delete_all(S, p), pd)

(* the assertions of cleanup_pool(pp, global) *)
cleanup_asserts(P, global) ==
    /\ Len(P.p) <= CLICK_PACKET_POOL_SIZE
    /\ Len(P.pd) <= CLICK_PACKET_POOL_SIZE
    /\ global \/ (Len(P.p) = P.pcount /\ Len(P.pd) = P.pdcount)

(* the first loop of Packet::static_cleanup(): every pool of the registry *)
(* is cleaned and deleted                                                 *)
RECURSIVE cleanup_thread_pools(_, _)
cleanup_thread_pools(S, ts) ==
    IF S.fail \/ ts = {} THEN S
    ELSE LET go(t) ==
                 cleanup_thread_pools(
                     [cleanup_pool(S, S.pool[t].p, S.pool[t].pd)
                         EXCEPT !.pool[t] = PoolInit], ts \ {t})
         IN go(CHOOSE t \in ts : \A u \in ts : t <= u)

(* the second loop: fake_pool.p and fake_pool.pd are both extracted from  *)
(* pbatch, until both come back null                                      *)
RECURSIVE cleanup_batches(_)
cleanup_batches(S) ==
    LET second(x, y) ==
            IF x.v = << >> /\ y.v = << >> THEN [S EXCEPT !.pbatch = y.r]
            ELSE cleanup_batches(
                     cleanup_pool([S EXCEPT !.pbatch = y.r], x.v, y.v))
        first(x) == second(x, Ring_extract(x.r))
    IN IF S.fail THEN S ELSE first(Ring_extract(S.pbatch))

(* Packet::static_cleanup(), HAVE_MULTITHREAD *)
static_cleanup(S) == cleanup_batches(cleanup_thread_pools(S, Threads))

(* ------------------------- packet operations ------------------------- *)
(* Packet::make(headroom, data, length, tailroom) *)
make(S, t, a, nh, nb) ==
    LET fill(S1, p) ==
            IF a.data # << >> /\ S1.pk[p].buf # 0
            THEN [S1 EXCEPT !.bufs[S1.pk[p].buf].mem =
                     memcpy_in(@, S1.bufs[S1.pk[p].buf].cap, S1.pk[p].data,
                               a.data),
                            !.held = @ \cup {p}]
            ELSE [S1 EXCEPT !.held = @ \cup {p}]
        done(r) == [S |-> fill(r.S, r.p), p |-> r.p, pooled |-> r.pooled]
    IN done(pool_allocate_sized(S, t, a.headroom, a.length, a.tailroom,
                                nh, nb))

(* Packet::make(data, length, destructor, argument): the caller's buffer  *)
(* lives at address b                                                     *)
make_foreign(S, t, a, nh, b) ==
    LET done(r) ==
            [S |-> [r.S EXCEPT !.pk[r.p] =
                       [initialize(@) EXCEPT
                           !.buf = b, !.data = 0, !.tail = a.length,
                           !.end = a.length, !.destructor = a.destructor],
                               !.held = @ \cup {r.p}],
             p |-> r.p]
    IN done(pool_allocate(
                IF b = 0 \/ S.bufs[b].live
                THEN [S EXCEPT !.fail = TRUE]
                ELSE [S EXCEPT !.bufs[b] =
                         [live |-> TRUE, cap |-> a.length, foreign |-> TRUE,
                          dtor |-> a.destructor,
                          mem |-> memcpy_in(EmptyMem, a.length, 0, a.data)]],
                t, nh))

(* Packet::clone() up to the increment: the new object is a copy of this  *)
(* one that refers to the origin                                          *)
(* a clone() that refers to the packet cloned, not to its origin *)
clone_copy_chained(S, t, h, nh) ==
    LET copy(r) ==
            [S |-> [r.S EXCEPT !.pk[r.p] =
                       [r.S.pk[h] EXCEPT
                           !.use_count = 1,
                           !.data_packet = h,
                           !.destructor = 0]],
             p |-> r.p]
    IN copy(pool_allocate(S, t, nh))

clone_copy(S, t, h, nh) ==
    LET copy(r) ==
            [S |-> [r.S EXCEPT !.pk[r.p] =
                       [r.S.pk[h] EXCEPT
                           !.use_count = 1,
                           !.data_packet = OwnerOf(r.S, h),
                           !.destructor = 0]],
             p |-> r.p]
    IN copy(pool_allocate(S, t, nh))

(* clone() without the increment of the origin's use count *)
clone_ref_noinc(S, p) == [S EXCEPT !.held = @ \cup {p}]

(* origin->_use_count++ of Packet::clone(), an atomic increment *)
clone_ref(S, p) ==
    [S EXCEPT !.pk[S.pk[p].data_packet].use_count = Add32(@, 1),
              !.held = @ \cup {p}]

(* Packet::clone() *)
clone(S, t, h, nh) ==
    LET inc(r) == [S |-> clone_ref(r.S, r.p), p |-> r.p]
    IN inc(clone_copy(S, t, h, nh))

(* Packet::expensive_uniqueify(extra_headroom, extra_tailroom, true).     *)
(* The steps are, in the order of the code: allocate, take over or        *)
(* recycle the new object, set the pointers, copy, free the old data, set *)
(* the count.                                                             *)
expensive_uniqueify(S, t, h, extra_headroom, extra_tailroom, nh, nb) ==
    LET T == S.pk[h]
        buflen == buffer_length(T)
        old_head == T.buf
        old_end == T.end
        hroom == headroom(T)
        len == length(T)
        start_copy == IF extra_headroom >= 0 THEN 0 ELSE -extra_headroom
        end_copy == old_end + (IF extra_tailroom >= 0 THEN 0 ELSE extra_tailroom)
        finish(S5, p) ==
            [S |-> [S5 EXCEPT
                       !.pk[h].destructor = 0,
                       !.pk[p] = shift_header_annotations(
                           [@ EXCEPT !.use_count = 1, !.data_packet = 0],
                           extra_headroom)],
             p |-> p]
        free_old(S3, p) ==
            finish(IF S3.pk[h].data_packet # 0
                   THEN kill(S3, t, S3.pk[h].data_packet)
                   ELSE IF S3.pk[h].destructor # 0
                        THEN release_buffer(S3, old_head, old_end, "callback")
                   ELSE release_buffer(S3, old_head, old_end, "delete"),
                   p)
        copy(S2, p, new_head) ==
            free_old(IF new_head = 0 THEN S2
                     ELSE [S2 EXCEPT !.bufs[new_head].mem =
                              memcpy(@, S2.bufs[new_head].cap,
                                     IF extra_headroom >= 0
                                     THEN extra_headroom ELSE 0,
                                     IF old_head = 0 THEN EmptyMem
                                     ELSE S2.bufs[old_head].mem,
                                     start_copy, end_copy - start_copy)],
                     p)
        relink(S1, p, new_head) ==
            copy([S1 EXCEPT !.pk[p].buf = new_head,
                            !.pk[p].data = hroom + extra_headroom,
                            !.pk[p].tail = hroom + extra_headroom + len,
                            !.pk[p].end = buflen,
                            !.held = (@ \ {h}) \cup {p}],
                 p, new_head)
        allocated(r) ==
            IF ULt(1, T.use_count)
            THEN relink([r.S EXCEPT !.pk[r.p] = [T EXCEPT !.destructor = 0]],
                        r.p, r.S.pk[r.p].buf)
            ELSE relink(recycle([r.S EXCEPT !.pk[r.p].buf = 0,
                                            !.pk[r.p].data_packet = 0],
                                t, r.p),
                        h, r.S.pk[r.p].buf)
    IN allocated(pool_allocate_sized(S, t, extra_headroom, buflen,
                                     extra_tailroom, nh, nb))

(* Packet::uniqueify() *)
uniqueify(S, t, h, nh, nb) ==
    IF ~shared(S.pk[h]) THEN [S |-> S, p |-> h]
    ELSE expensive_uniqueify(S, t, h, 0, 0, nh, nb)

(* Packet::expensive_push(nbytes) *)
expensive_push(S, t, h, nbytes, nh, nb) ==
    LET x == Add32(nbytes, PushSlack)
        moved(q) == [S |-> [q.S EXCEPT !.pk[q.p].data = @ - nbytes], p |-> q.p]
    IN moved(expensive_uniqueify(S, t, h, x - (x % 4), 0, nh, nb))

(* Packet::expensive_put(nbytes) *)
expensive_put(S, t, h, nbytes, nh, nb) ==
    LET moved(q) == [S |-> [q.S EXCEPT !.pk[q.p].tail = @ + nbytes], p |-> q.p]
    IN moved(expensive_uniqueify(S, t, h, 0, Add32(nbytes, PushSlack), nh, nb))

(* Packet::push(len) *)
push(S, t, h, len, nh, nb) ==
    IF ULe(len, headroom(S.pk[h])) /\ ~shared(S.pk[h])
    THEN [S |-> [S EXCEPT !.pk[h].data = @ - len], p |-> h]
    ELSE expensive_push(S, t, h, len, nh, nb)

(* Packet::put(len) *)
put(S, t, h, len, nh, nb) ==
    IF ULe(len, tailroom(S.pk[h])) /\ ~shared(S.pk[h])
    THEN [S |-> [S EXCEPT !.pk[h].tail = @ + len], p |-> h]
    ELSE expensive_put(S, t, h, len, nh, nb)

(* the null pointer seen from a buffer: far below its start *)
NullPtr == 0 - MaxInt32

(* what an operation returns when the process is stopped by a memory      *)
(* fault                                                                  *)
Fault == 0 - 2

(* Packet::mac_header(), network_header(), transport_header(): the        *)
(* pointer kept, null when the header is not set                          *)
mac_header(P) == IF P.has_mac THEN P.mac ELSE NullPtr
network_header(P) == IF P.has_nh THEN P.nh ELSE NullPtr
transport_header(P) == IF P.has_h THEN P.h ELSE NullPtr

(* the start of the region shift_data() moves: lines 1145-1153 *)
shift_start(P) ==
    LET third(dp) ==
            IF /\ P.has_h /\ transport_header(P) >= 0
               /\ transport_header(P) <= P.end /\ transport_header(P) < dp
            THEN network_header(P) ELSE dp
        second(dp) ==
            third(IF /\ P.has_nh /\ network_header(P) >= 0
                     /\ network_header(P) <= P.end /\ network_header(P) < dp
                  THEN network_header(P) ELSE dp)
    IN second(IF /\ P.has_mac /\ mac_header(P) >= 0
                 /\ mac_header(P) <= P.end /\ mac_header(P) < P.data
              THEN mac_header(P) ELSE P.data)

(* the test of line 1155 *)
shift_in_place(P, dp, offset) ==
    /\ ~shared(P)
    /\ IF offset < 0 THEN dp >= -offset ELSE ULe(offset, tailroom(P))

(* Packet::shift_data(offset, free_on_failure); al is the low three bits  *)
(* of the address of the buffer.  A memmove() from the null pointer, or   *)
(* of a negative length, stops the process.                               *)
shift_data(S, t, h, offset, al, nh, nb) ==
    LET P == S.pk[h]
        low3(x) == ((x % 8) + 8) % 8
        in_place(dp) ==
            IF dp = NullPtr \/ dp > P.tail
            THEN [S |-> S, p |-> Fault]
            ELSE [S |-> [S EXCEPT
                            !.bufs[P.buf].mem =
                                memcpy(@, S.bufs[P.buf].cap, dp + offset,
                                       @, dp, P.tail - dp),
                            !.pk[h] = shift_header_annotations(
                                          [@ EXCEPT !.data = @ + offset,
                                                    !.tail = @ + offset],
                                          offset)],
                  p |-> h]
        tailroom_offset == IF offset < 0 THEN -offset ELSE 0
        new_offset ==
            IF offset < 0 /\ ULt(headroom(P), -offset)
            THEN -headroom(P) + low3(al + P.data + offset)
            ELSE offset + al
    IN IF offset = 0 THEN [S |-> S, p |-> h]
       ELSE IF shift_in_place(P, shift_start(P), offset)
       THEN in_place(shift_start(P))
       ELSE expensive_uniqueify(S, t, h, new_offset, tailroom_offset, nh, nb)

(* Packet::pull(len) *)
pull(S, h, len) == [S EXCEPT !.pk[h].data = @ + len]

(* Packet::take(len) *)
take(S, h, len) == [S EXCEPT !.pk[h].tail = @ - len]

(* ------------------------------ actions ------------------------------ *)
(* the lowest free Packet address in lo..hi, as a set with at most one     *)
(* element; the upper half is looked at only when the lower half has none *)
RECURSIVE LowestFree(_, _)
LowestFree(lo, hi) ==
    IF lo > hi THEN {}
    ELSE IF lo = hi THEN (IF pk[lo].alloc THEN {} ELSE {lo})
    ELSE UNION {IF F = {} THEN LowestFree((lo + hi) \div 2 + 1, hi) ELSE F :
                F \in {LowestFree(lo, (lo + hi) \div 2)}}
FreeBufs == {b \in DOMAIN bufs \ {0} : ~bufs[b].live}
(* The addresses the allocator may return, 0 when it has none left: for a *)
(* buffer any freed address, or the lowest address never used so far; for *)
(* a new Packet object the lowest free address.                           *)
(* (F ranges over the one set whose elements are those of set, so that    *)
(* set is enumerated once)                                                *)
Lowest(set) ==
    UNION {{x \in F : \A y \in F : x <= y} : F \in {{z : z \in set}}}
Cand(set) == UNION {IF F = {} THEN {0} ELSE F : F \in {{z : z \in set}}}
NewBuf ==
    Cand({b \in FreeBufs : bufs[b].cap > 0}
         \cup Lowest({b \in FreeBufs : bufs[b].cap = 0}))
NewHandle == Cand(LowestFree(1, Cardinality(DOMAIN pk) - 1))

NoArgs == [headroom |-> 0, data |-> << >>, length |-> 0, tailroom |-> 0]
NoSnap ==
    [win |-> EmptyMem, len |-> 0, hr |-> 0, tr |-> 0, bl |-> 0,
     own |-> 0, oc |-> 0, sh |-> FALSE]
NoClone == [valid |-> FALSE, orig |-> 0, pre |-> NoSnap]

(* what is observable of packet h before an operation *)
Snap(h) ==
    LET P == pk[h]
        o == OwnerOf(State, h)
    IN [win |-> Window(State, h), len |-> length(P), hr |-> headroom(P),
        tr |-> tailroom(P), bl |-> buffer_length(P), own |-> o,
        oc |-> pk[o].use_count, sh |-> shared(P)]

Rec(op, h, n, a, res, pre, cl) ==
    [op |-> op, h |-> h, n |-> n, a |-> a, res |-> res, pre |-> pre, cl |-> cl,
     pooled |-> FALSE, old |-> PacketInit]

ConcInit ==
    [pc |-> [t \in Threads |-> "idle"], cur |-> [t \in Threads |-> 0],
     made |-> [t \in Threads |-> 0], mine |-> [t \in Threads |-> {}],
     orig |-> 0, origbuf |-> 0, origdead |-> FALSE, nrel |-> 0]

Commit(S, rec) ==
    /\ ~S.fail
    /\ pk' = S.pk
    /\ bufs' = S.bufs
    /\ pool' = S.pool
    /\ pbatch' = S.pbatch
    /\ pdbatch' = S.pdbatch
    /\ held' = S.held
    /\ rel' = S.rel
    /\ last' = rec
    /\ nops' = nops + 1
    /\ UNCHANGED <<conc, rg>>

(* no ring is studied on its own *)
RingIdle == [kind |-> "none"]

PacketsInit ==
    /\ pk = [h \in 0..MaxHandles |-> PacketInit]
    /\ bufs = [b \in 0..MaxBufs |-> BufInit]
    /\ pool = [t \in Threads |-> PoolInit]
    /\ pbatch = RingInit
    /\ pdbatch = RingInit
    /\ held = {}
    /\ rel = {}
    /\ last = Rec("init", 0, 0, NoArgs, 0, NoSnap, NoClone)
    /\ nops = 0
    /\ conc = ConcInit

Init == PacketsInit /\ rg = RingIdle

Make(t) ==
    /\ nops < MaxOps
    /\ \E a \in MakeArgs, nh \in NewHandle, nb \in NewBuf :
          LET done(r) ==
                  Commit(r.S, [Rec("make", 0, 0, a, r.p, NoSnap, NoClone)
                                  EXCEPT !.pooled = r.pooled, !.old = pk[r.p]])
          IN done(make(State, t, a, nh, nb))

MakeForeign(t) ==
    /\ nops < MaxOps
    /\ \E a \in ForeignArgs, nh \in NewHandle, b \in NewBuf :
          LET done(r) ==
                  Commit(r.S, [Rec("make_foreign", 0, a.destructor,
                                   [headroom |-> 0, data |-> a.data,
                                    length |-> a.length, tailroom |-> 0],
                                   r.p, NoSnap, NoClone)
                                  EXCEPT !.old = pk[r.p]])
          IN done(make_foreign(State, t, a, nh, b))

Clone(t, h) ==
    /\ nops < MaxOps
    /\ h \in held
    /\ \E nh \in NewHandle :
          LET done(r) ==
                  Commit(r.S, Rec("clone", h, 0, NoArgs, r.p, Snap(h), NoClone))
          IN done(clone(State, t, h, nh))

Uniqueify(t, h) ==
    /\ nops < MaxOps
    /\ h \in held
    /\ \E nh \in NewHandle, nb \in NewBuf :
          LET done(r) ==
                  Commit(r.S, Rec("uniqueify", h, 0, NoArgs, r.p, Snap(h), NoClone))
          IN done(uniqueify(State, t, h, nh, nb))

Push(t, h) ==
    /\ nops < MaxOps
    /\ h \in held
    /\ \E n \in PushLens, nh \in NewHandle, nb \in NewBuf :
          LET done(r) ==
                  Commit(r.S, Rec("push", h, n, NoArgs, r.p, Snap(h), NoClone))
          IN done(push(State, t, h, n, nh, nb))

Put(t, h) ==
    /\ nops < MaxOps
    /\ h \in held
    /\ \E n \in PutLens, nh \in NewHandle, nb \in NewBuf :
          LET done(r) ==
                  Commit(r.S, Rec("put", h, n, NoArgs, r.p, Snap(h), NoClone))
          IN done(put(State, t, h, n, nh, nb))

Pull(t, h) ==
    /\ nops < MaxOps
    /\ h \in held
    /\ \E n \in PullLens :
          /\ ULe(n, length(pk[h]))
          /\ Commit(pull(State, h, n),
                    Rec("pull", h, n, NoArgs, h, Snap(h), NoClone))

Take(t, h) ==
    /\ nops < MaxOps
    /\ h \in held
    /\ \E n \in TakeLens :
          /\ ULe(n, length(pk[h]))
          /\ Commit(take(State, h, n),
                    Rec("take", h, n, NoArgs, h, Snap(h), NoClone))

Kill(t, h) ==
    /\ nops < MaxOps
    /\ h \in held
    /\ Commit(kill([State EXCEPT !.held = @ \ {h}], t, h),
              Rec("kill", h, 0, NoArgs, 0, Snap(h),
                  IF last.op = "clone" /\ last.res = h
                  THEN [valid |-> TRUE, orig |-> last.h, pre |-> last.pre]
                  ELSE NoClone))

(* a store through WritablePacket::data(): the last byte of the packet    *)
(* data is set to 9; only done on a packet that is not shared             *)
WriteData(t, h) ==
    /\ nops < MaxOps
    /\ h \in held
    /\ ~shared(pk[h])
    /\ pk[h].buf # 0
    /\ pk[h].data < pk[h].tail
    /\ Commit([State EXCEPT !.bufs[pk[h].buf].mem =
                  memcpy_in(@, bufs[pk[h].buf].cap, pk[h].tail - 1, <<9>>)],
              Rec("write", h, 9, NoArgs, h, Snap(h), NoClone))

(* Packet::set_anno_u32(0, 1) *)
SetAnno(t, h) ==
    /\ nops < MaxOps
    /\ h \in held
    /\ Commit([State EXCEPT !.pk[h].anno = 1],
              Rec("set_anno", h, 1, NoArgs, h, Snap(h), NoClone))

(* Packet::set_mac_header(data()) *)
SetMacHeader(t, h) ==
    /\ nops < MaxOps
    /\ h \in held
    /\ Commit([State EXCEPT !.pk[h].has_mac = TRUE, !.pk[h].mac = pk[h].data],
              Rec("set_mac_header", h, 0, NoArgs, h, Snap(h), NoClone))

Next ==
    \E t \in Main :
        \/ Make(t)
        \/ MakeForeign(t)
        \/ \E h \in Handles :
              \/ Clone(t, h)
              \/ Uniqueify(t, h)
              \/ Push(t, h)
              \/ Put(t, h)
              \/ Pull(t, h)
              \/ Take(t, h)
              \/ Kill(t, h)
              \/ WriteData(t, h)
              \/ SetAnno(t, h)
              \/ SetMacHeader(t, h)

Spec == Init /\ [][Next]_vars

(* ------------------- the backend out of memory ------------------------ *)
(* Packet::make(headroom, 0, length, tailroom) when new unsigned char[n]  *)
(* returns null: taken only when make() asks the backend for a buffer.    *)
(* The data argument is null: with data to copy, make() would store it    *)
(* through the pointer it did not get.                                    *)
MakeNoMem(t) ==
    /\ nops < MaxOps
    /\ \E a \in {[x EXCEPT !.data = << >>] : x \in MakeArgs}, nh \in NewHandle :
          /\ \/ ~ULe(Add32(Add32(a.headroom, a.length), a.tailroom),
                     CLICK_PACKET_POOL_BUFSIZ)
             \/ pool[t].pd = << >> /\ is_empty(pdbatch)
          /\ LET done(r) ==
                     Commit(r.S, [Rec("make_nomem", 0, 0, a, r.p, NoSnap, NoClone)
                                     EXCEPT !.pooled = r.pooled, !.old = pk[r.p]])
             IN done(make(State, t, a, nh, NoMem))

NextNoMem ==
    \/ Next
    \/ \E t \in Main : MakeNoMem(t)

SpecNoMem == Init /\ [][NextNoMem]_vars

(* -------------------------- shifted data ------------------------------ *)
(* the low three bits of the address of a buffer: 0 for one that new[]    *)
(* gave, any for a caller's buffer                                        *)
Alignments(b) == IF bufs[b].foreign THEN {0, 4} ELSE {0}

ShiftData(t, h) ==
    /\ nops < MaxOps
    /\ h \in held
    /\ pk[h].buf # 0
    /\ \E n \in ShiftOffsets, al \in Alignments(pk[h].buf),
          nh \in NewHandle, nb \in NewBuf :
          LET done(r) ==
                  Commit(r.S, Rec("shift_data", h, n, NoArgs, r.p, Snap(h), NoClone))
          IN done(shift_data(State, t, h, n, al, nh, nb))

NextShift ==
    \/ Next
    \/ \E t \in Main, h \in Handles : ShiftData(t, h)

SpecShift == Init /\ [][NextShift]_vars

(* ------------------ shifted data with three headers ------------------- *)
(* a packet made of eight bytes of headers and two of payload, in a       *)
(* buffer of the standard size; the headers are then pulled               *)
HdrMake ==
    [headroom |-> 0, data |-> <<10, 11, 12, 13, 14, 15, 16, 17, 1, 2>>,
     length |-> 10, tailroom |-> 0]
HdrPull == 8
(* where the elements have set each header: NullPtr when not set, else an *)
(* offset in the buffer, before the data (at 8) or inside them (9)        *)
MacAt == {NullPtr, 0, 5}
NetworkAt == {NullPtr, 2, 6, 9}
TransportAt == {NullPtr, 1, 4, 7}
(* 2039 is one more than the tailroom of the packet made *)
HdrOffsets == {0, 0 - 1, 0 - 3, 0 - 6, 2, 2039}

HdrEmpty ==
    [pk |-> [h \in 0..MaxHandles |-> PacketInit],
     bufs |-> [b \in 0..MaxBufs |-> BufInit],
     pool |-> [t \in Threads |-> PoolInit],
     pbatch |-> RingInit, pdbatch |-> RingInit,
     held |-> {}, rel |-> {}, fail |-> FALSE]

(* Packet::set_mac_header(), set_network_header(), set_transport_header() *)
(* with the pointers m, n, x on packet h                                   *)
set_headers(S, h, m, n, x) ==
    [S EXCEPT !.pk[h].has_mac = m # NullPtr, !.pk[h].mac = IF m = NullPtr THEN 0 ELSE m,
              !.pk[h].has_nh = n # NullPtr, !.pk[h].nh = IF n = NullPtr THEN 0 ELSE n,
              !.pk[h].has_h = x # NullPtr, !.pk[h].h = IF x = NullPtr THEN 0 ELSE x]

(* the packet made, pulled, its headers set, and cloned once when sh *)
HdrState(m, n, x, sh) ==
    LET cloned(S) == IF sh THEN clone(S, 1, 1, 2).S ELSE S
        made(r) == cloned(set_headers(pull(r.S, r.p, HdrPull), r.p, m, n, x))
    IN made(make(HdrEmpty, 1, HdrMake, 1, 1))

InitHdr ==
    /\ \E m \in MacAt, n \in NetworkAt, x \in TransportAt, sh \in BOOLEAN :
          /\ pk = HdrState(m, n, x, sh).pk
          /\ bufs = HdrState(m, n, x, sh).bufs
          /\ pool = HdrState(m, n, x, sh).pool
          /\ pbatch = HdrState(m, n, x, sh).pbatch
          /\ pdbatch = HdrState(m, n, x, sh).pdbatch
          /\ held = HdrState(m, n, x, sh).held
    /\ rel = {}
    /\ last = Rec("init", 0, 0, NoArgs, 0, NoSnap, NoClone)
    /\ nops = 0
    /\ conc = ConcInit
    /\ rg = RingIdle

(* shift_data(n) on a packet held; last.old is the packet before the call *)
HdrShift(t, h) ==
    /\ nops < MaxShifts
    /\ last.res # Fault
    /\ h \in held
    /\ \E n \in HdrOffsets, nh \in NewHandle, nb \in NewBuf :
          LET done(r) ==
                  Commit(r.S, [Rec("shift_data", h, n, NoArgs, r.p, Snap(h), NoClone)
                                  EXCEPT !.old = pk[h]])
          IN done(shift_data(State, t, h, n, 0, nh, nb))

NextHdr == \E t \in Main, h \in Handles : HdrShift(t, h)

SpecHdr == InitHdr /\ [][NextHdr]_vars

(* ----------------- two threads cloning and releasing ------------------ *)
(* One packet, the original, is made; every thread clones it              *)
(* ClonesPerThread times and kills its clones; the original is killed     *)
(* once no thread clones any more.  A clone() is two steps, the copy of   *)
(* the object and the atomic increment of the origin's use count; a       *)
(* kill() is the atomic dec_and_test() and, when that reached zero, the   *)
(* recycle() of the packet.                                               *)
Commit7(S, c) ==
    /\ ~S.fail
    /\ pk' = S.pk
    /\ bufs' = S.bufs
    /\ pool' = S.pool
    /\ pbatch' = S.pbatch
    /\ pdbatch' = S.pdbatch
    /\ held' = S.held
    /\ rel' = S.rel
    /\ conc' = [c EXCEPT !.nrel =
                   @ + Cardinality({e \in S.rel : e.buf = c.origbuf})]
    /\ UNCHANGED <<last, nops, rg>>

MakeOriginal(t) ==
    /\ conc.orig = 0
    /\ \E a \in MakeArgs, nh \in NewHandle, nb \in NewBuf :
          LET done(r) ==
                  Commit7(r.S, [conc EXCEPT !.orig = r.p,
                                            !.origbuf = r.S.pk[r.p].buf])
          IN done(make(State, t, a, nh, nb))

MakeForeignOriginal(t) ==
    /\ conc.orig = 0
    /\ \E a \in ForeignArgs, nh \in NewHandle, b \in NewBuf :
          LET done(r) == Commit7(r.S, [conc EXCEPT !.orig = r.p, !.origbuf = b])
          IN done(make_foreign(State, t, a, nh, b))

CloneStart(t) ==
    /\ conc.orig # 0 /\ ~conc.origdead
    /\ conc.pc[t] = "idle"
    /\ conc.made[t] < ClonesPerThread
    /\ \E nh \in NewHandle :
          LET done(r) ==
                  Commit7(r.S, [conc EXCEPT !.pc[t] = "clone_inc",
                                            !.cur[t] = r.p])
          IN done(clone_copy(State, t, conc.orig, nh))

CloneInc(t) ==
    /\ conc.pc[t] = "clone_inc"
    /\ Commit7(clone_ref(State, conc.cur[t]),
               [conc EXCEPT !.pc[t] = "idle", !.cur[t] = 0,
                            !.made[t] = @ + 1,
                            !.mine[t] = @ \cup {conc.cur[t]}])

KillStart(t, h) ==
    /\ conc.pc[t] = "idle"
    /\ \/ h \in conc.mine[t]
       \/ /\ h = conc.orig /\ ~conc.origdead
          /\ \A u \in Threads :
                conc.made[u] = ClonesPerThread /\ conc.pc[u] # "clone_inc"
    /\ LET S == dec_and_test([State EXCEPT !.held = @ \ {h}], h)
           zero == S.pk[h].use_count = 0
       IN Commit7(S, [conc EXCEPT
                         !.pc[t] = IF zero THEN "recycle" ELSE "idle",
                         !.cur[t] = IF zero THEN h ELSE 0,
                         !.mine[t] = @ \ {h},
                         !.origdead = @ \/ h = conc.orig])

Recycle(t) ==
    /\ conc.pc[t] = "recycle"
    /\ Commit7(recycle(State, t, conc.cur[t]),
               [conc EXCEPT !.pc[t] = "idle", !.cur[t] = 0])

Next7 ==
    \/ \E t \in Main : MakeOriginal(t) \/ MakeForeignOriginal(t)
    \/ \E t \in Threads :
          \/ CloneStart(t)
          \/ CloneInc(t)
          \/ \E h \in Handles : KillStart(t, h)
          \/ Recycle(t)

SpecC7 == Init /\ [][Next7]_vars


(* ------------------- a ring used by one thread at a time ------------- *)
(* A BaseRing of capacity N whose counters have already run for a while:  *)
(* it is empty with head = tail = start.  The values inserted are 1, 2,   *)
(* ...; q is the sequence of values inserted and not yet extracted.       *)
RingStarts == {0, Sub32(0, 2)}

RingState(N, start) ==
    [kind |-> "ring", N |-> N, start |-> start,
     ring |-> [i \in 0..(N - 1) |-> 0], head |-> start, tail |-> start,
     q |-> << >>, nv |-> 1, nops |-> 0,
     last |-> [op |-> "none", ok |-> FALSE, v |-> 0, head |-> start,
               tail |-> start, ring |-> [i \in 0..(N - 1) |-> 0],
               q |-> << >>]]

InitRing ==
    /\ PacketsInit
    /\ \E N \in 1..MaxRingSize, start \in RingStarts : rg = RingState(N, start)

RingPre(op, ok, v) ==
    [op |-> op, ok |-> ok, v |-> v, head |-> rg.head, tail |-> rg.tail,
     ring |-> rg.ring, q |-> rg.q]

RingInsert ==
    /\ rg.nops < MaxRingOps
    /\ LET done(x) ==
               rg' = [x.r EXCEPT !.q = IF x.ok THEN Append(@, rg.nv) ELSE @,
                                 !.nv = @ + 1, !.nops = @ + 1,
                                 !.last = RingPre("insert", x.ok, rg.nv)]
       IN done(BaseRing_insert(rg, rg.nv, rg.N))
    /\ UNCHANGED <<pk, bufs, pool, pbatch, pdbatch, held, rel, last, nops, conc>>

RingExtract ==
    /\ rg.nops < MaxRingOps
    /\ LET done(x) ==
               rg' = [x.r EXCEPT !.q = IF @ = << >> THEN @ ELSE Tail(@),
                                 !.nops = @ + 1,
                                 !.last = RingPre("extract", x.v # 0, x.v)]
       IN done(BaseRing_extract(rg, rg.N))
    /\ UNCHANGED <<pk, bufs, pool, pbatch, pdbatch, held, rel, last, nops, conc>>

NextRing == RingInsert \/ RingExtract

SpecRing == InitRing /\ [][NextRing]_vars

(* --------------- a locked ring used by several threads --------------- *)
(* MPMCRing (one lock for both ends) and SMPMCRing (a head lock and a     *)
(* tail lock).  insert() is: take the head lock, test has_space(), store  *)
(* the value, add one to head and unlock.  extract() is: take the tail    *)
(* lock, test is_empty(), bind the reference v to slot tail % N, add one  *)
(* to tail and unlock, and only then read v for the return value.         *)
RingKinds == {"MPMCRing", "SMPMCRing"}
LockNames == {"_lock", "_lock_head", "_lock_tail"}

(* the lock acquire_head() and acquire_tail() of a ring class take *)
head_lock(kind) == IF kind = "MPMCRing" THEN "_lock" ELSE "_lock_head"
tail_lock(kind) == IF kind = "MPMCRing" THEN "_lock" ELSE "_lock_tail"

(* a spinlock is free when no thread holds it *)
lock_free(r, l) == r.locks[l] = 0

(* acquire_head() that does not take the lock *)
acquire_head_nolock(r, t) == r

(* release_head() that keeps the lock *)
release_head_kept(r) == r

acquire_head(r, t) == [r EXCEPT !.locks[head_lock(r.kind)] = t]
acquire_tail(r, t) == [r EXCEPT !.locks[tail_lock(r.kind)] = t]
release_head(r) == [r EXCEPT !.locks[head_lock(r.kind)] = 0]
release_tail(r) == [r EXCEPT !.locks[tail_lock(r.kind)] = 0]

LockedRingState(kind, N, start) ==
    [kind |-> kind, N |-> N, start |-> start,
     ring |-> [i \in 0..(N - 1) |-> 0], head |-> start, tail |-> start,
     locks |-> [l \in LockNames |-> 0],
     pc |-> [t \in Threads |-> "idle"],
     arg |-> [t \in Threads |-> 0],
     ins |-> {}, outs |-> << >>, nv |-> 1, nops |-> 0]

InitLockedRing ==
    /\ PacketsInit
    /\ \E kind \in RingKinds, N \in 1..MaxRingSize, start \in RingStarts :
          rg = LockedRingState(kind, N, start)

RingOnly == UNCHANGED <<pk, bufs, pool, pbatch, pdbatch, held, rel, last, nops, conc>>

(* acquire_head(); if (has_space()) ... else { release_head(); return false; } *)
InsBegin(t) ==
    /\ rg.pc[t] = "idle"
    /\ rg.nops < MaxConcOps
    /\ lock_free(rg, head_lock(rg.kind))
    /\ LET go(r) ==
               IF BaseRing_has_space(r, r.N)
               THEN [r EXCEPT !.pc[t] = "ins_store", !.arg[t] = r.nv,
                              !.nv = @ + 1, !.nops = @ + 1]
               ELSE [release_head(r) EXCEPT !.nv = @ + 1, !.nops = @ + 1]
       IN rg' = go(acquire_head(rg, t))
    /\ RingOnly

(* ring[head % RING_SIZE] = batch *)
InsStore(t) ==
    /\ rg.pc[t] = "ins_store"
    /\ rg' = [rg EXCEPT !.ring[UMod(rg.head, rg.N)] = rg.arg[t],
                        !.pc[t] = "ins_head"]
    /\ RingOnly

(* head++; release_head(); return true *)
InsEnd(t) ==
    /\ rg.pc[t] = "ins_head"
    /\ rg' = [release_head(rg) EXCEPT !.head = Add32(@, 1),
                                      !.ins = @ \cup {rg.arg[t]},
                                      !.pc[t] = "idle", !.arg[t] = 0]
    /\ RingOnly

(* acquire_tail(); if (!is_empty()) { T &v = ring[tail % RING_SIZE]; ...  *)
(* else { release_tail(); return 0; }                                     *)
ExtBegin(t) ==
    /\ rg.pc[t] = "idle"
    /\ rg.nops < MaxConcOps
    /\ lock_free(rg, tail_lock(rg.kind))
    /\ LET go(r) ==
               IF ~is_empty(r)
               THEN [r EXCEPT !.pc[t] = "ext_tail",
                              !.arg[t] = UMod(r.tail, r.N), !.nops = @ + 1]
               ELSE [release_tail(r) EXCEPT !.nops = @ + 1]
       IN rg' = go(acquire_tail(rg, t))
    /\ RingOnly

(* tail++; release_tail() *)
ExtTail(t) ==
    /\ rg.pc[t] = "ext_tail"
    /\ rg' = [release_tail(rg) EXCEPT !.tail = Add32(@, 1),
                                      !.pc[t] = "ext_return"]
    /\ RingOnly

(* return v: the slot is read through the reference now *)
ExtReturn(t) ==
    /\ rg.pc[t] = "ext_return"
    /\ rg' = [rg EXCEPT !.outs = Append(@, rg.ring[rg.arg[t]]),
                        !.pc[t] = "idle", !.arg[t] = 0]
    /\ RingOnly

NextLockedRing ==
    \E t \in Threads :
        \/ InsBegin(t)
        \/ InsStore(t)
        \/ InsEnd(t)
        \/ ExtBegin(t)
        \/ ExtTail(t)
        \/ ExtReturn(t)

SpecLockedRing == InitLockedRing /\ [][NextLockedRing]_vars

(* ---------------------------- MPMCLIFO -------------------------------- *)
(* A stack of objects linked through their prev pointers, guarded by one  *)
(* lock.  The objects are 1..MaxRingSize + 1, 0 is the null pointer.      *)
Objects == 1..(MaxRingSize + 1)

MPMCLIFO_has_space_always(r) == TRUE

MPMCLIFO_has_space(r) == r._count < r.MAX_SIZE
MPMCLIFO_is_empty(r) == r._first = 0

(* the body of insert(v) between acquire and return *)
MPMCLIFO_insert(r, v) ==
    IF ~MPMCLIFO_has_space(r)
    THEN [ok |-> FALSE, r |-> r]
    ELSE [ok |-> TRUE,
          r |-> [r EXCEPT !.prev[v] = r._first, !._first = v,
                          !._count = Add32(@, 1)]]

(* the body of extract() between acquire and return *)
MPMCLIFO_extract(r) ==
    IF MPMCLIFO_is_empty(r)
    THEN [v |-> 0, r |-> r]
    ELSE [v |-> r._first,
          r |-> [r EXCEPT !._first = r.prev[r._first],
                          !._count = Sub32(@, 1)]]

LifoState(MAX_SIZE) ==
    [kind |-> "MPMCLIFO", MAX_SIZE |-> MAX_SIZE,
     _first |-> 0, _count |-> 0, prev |-> [o \in Objects |-> 0],
     _lock |-> 0,
     pc |-> [t \in Threads |-> "idle"], arg |-> [t \in Threads |-> 0],
     q |-> << >>, by |-> [o \in Objects |-> 0], nops |-> 0,
     last |-> [op |-> "none", t |-> 0, ok |-> FALSE, v |-> 0,
               _first |-> 0, _count |-> 0, prev |-> [o \in Objects |-> 0],
               q |-> << >>]]

InitLifo ==
    /\ PacketsInit
    /\ \E MAX_SIZE \in 1..MaxRingSize : rg = LifoState(MAX_SIZE)

LifoPre(op, t, ok, v) ==
    [op |-> op, t |-> t, ok |-> ok, v |-> v, _first |-> rg._first,
     _count |-> rg._count, prev |-> rg.prev, q |-> rg.q]

(* objects a thread may hand to insert: not in the stack, not in use by  *)
(* another call                                                          *)
FreeObjects ==
    {o \in Objects : /\ \A i \in 1..Len(rg.q) : rg.q[i] # o
                     /\ \A t \in Threads : rg.arg[t] # o}

(* _lock.acquire() at the start of insert(v) *)
LifoInsertAcquire(t) ==
    /\ rg.pc[t] = "idle"
    /\ rg.nops < MaxLifoOps
    /\ rg._lock = 0
    /\ \E v \in FreeObjects :
          rg' = [rg EXCEPT !._lock = t, !.pc[t] = "insert", !.arg[t] = v,
                           !.nops = @ + 1]
    /\ RingOnly

(* _lock.acquire() at the start of extract() *)
LifoExtractAcquire(t) ==
    /\ rg.pc[t] = "idle"
    /\ rg.nops < MaxLifoOps
    /\ rg._lock = 0
    /\ rg' = [rg EXCEPT !._lock = t, !.pc[t] = "extract", !.nops = @ + 1]
    /\ RingOnly

LifoInsert(t) ==
    /\ rg.pc[t] = "insert"
    /\ LET done(x) ==
               [x.r EXCEPT !._lock = 0, !.pc[t] = "idle", !.arg[t] = 0,
                           !.q = IF x.ok THEN Append(@, rg.arg[t]) ELSE @,
                           !.by[rg.arg[t]] = IF x.ok THEN t ELSE @,
                           !.last = LifoPre("insert", t, x.ok, rg.arg[t])]
       IN rg' = done(MPMCLIFO_insert(rg, rg.arg[t]))
    /\ RingOnly

LifoExtract(t) ==
    /\ rg.pc[t] = "extract"
    /\ LET done(x) ==
               [x.r EXCEPT !._lock = 0, !.pc[t] = "idle",
                           !.q = IF Len(@) > 0 THEN SubSeq(@, 1, Len(@) - 1)
                                 ELSE @,
                           !.last = LifoPre("extract", t, x.v # 0, x.v)]
       IN rg' = done(MPMCLIFO_extract(rg))
    /\ RingOnly

NextLifo ==
    \E t \in Threads :
        \/ LifoInsertAcquire(t)
        \/ LifoExtractAcquire(t)
        \/ LifoInsert(t)
        \/ LifoExtract(t)

SpecLifo == InitLifo /\ [][NextLifo]_vars

(* ------------------ the locked containers, scheduled ------------------ *)
(* Calls on one container of any locked class.  A thread that has taken   *)
(* the lock of a call goes on running: its steps up to the return are     *)
(* taken under weak fairness.  A thread that waits for a spinlock is a    *)
(* thread that has not taken it yet.                                      *)
InitLocks == InitLockedRing \/ InitLifo

RingCalls == rg.kind \in RingKinds /\ NextLockedRing
LifoCalls == rg.kind = "MPMCLIFO" /\ NextLifo
NextLocks == RingCalls \/ LifoCalls

(* the steps of thread t between the acquire and the return of its call *)
Proceed(t) ==
    \/ /\ rg.kind \in RingKinds
       /\ InsStore(t) \/ InsEnd(t) \/ ExtTail(t) \/ ExtReturn(t)
    \/ /\ rg.kind = "MPMCLIFO"
       /\ LifoInsert(t) \/ LifoExtract(t)

SpecLocks == InitLocks /\ [][NextLocks]_vars
FairLocks == SpecLocks /\ \A t \in Threads : WF_vars(Proceed(t))

(* thread t holds a lock of the container *)
Holds(t) ==
    IF rg.kind = "MPMCLIFO" THEN rg._lock = t
    ELSE \E l \in LockNames : rg.locks[l] = t

(* ----------------------- a pool near its limit ------------------------ *)
(* The state of one thread that has allocated one packet more than a list *)
(* of its pool may hold and released all but the last: either             *)
(* CLICK_PACKET_POOL_SIZE + 1 packets with standard buffers, or one such  *)
(* packet and CLICK_PACKET_POOL_SIZE + 1 clones of it.  The state is      *)
(* computed with make, clone and kill themselves.                         *)
PoolHandles == CLICK_PACKET_POOL_SIZE + MaxHandles
PoolBufs == CLICK_PACKET_POOL_SIZE + MaxBufs
PoolArg == [headroom |-> 32, data |-> << >>, length |-> 2, tailroom |-> 32]

PoolEmpty ==
    [pk |-> Table([h \in 0..PoolHandles |-> PacketInit]),
     bufs |-> Table([b \in 0..PoolBufs |-> BufInit]),
     pool |-> [t \in Threads |-> PoolInit],
     pbatch |-> RingInit, pdbatch |-> RingInit,
     held |-> {}, rel |-> {}, fail |-> FALSE]

(* packets lo..hi made one after the other, each at the lowest free       *)
(* address with its buffer at the lowest free address                     *)
RECURSIVE MakeMany(_, _, _)
MakeMany(S, lo, hi) ==
    IF S.fail \/ lo > hi THEN S
    ELSE IF lo = hi THEN make(S, 1, PoolArg, lo, lo).S
    ELSE MakeMany(MakeMany(S, lo, (lo + hi) \div 2), (lo + hi) \div 2 + 1, hi)

(* clones lo..hi of packet o made one after the other *)
RECURSIVE CloneMany(_, _, _, _)
CloneMany(S, o, lo, hi) ==
    IF S.fail \/ lo > hi THEN S
    ELSE IF lo = hi THEN clone(S, 1, o, lo).S
    ELSE CloneMany(CloneMany(S, o, lo, (lo + hi) \div 2), o,
                   (lo + hi) \div 2 + 1, hi)

(* packets lo..hi killed one after the other *)
RECURSIVE KillMany(_, _, _)
KillMany(S, lo, hi) ==
    IF S.fail \/ lo > hi THEN S
    ELSE IF lo = hi
    THEN kill([S EXCEPT !.held = @ \ {lo}, !.rel = {}], 1, lo)
    ELSE KillMany(KillMany(S, lo, (lo + hi) \div 2), (lo + hi) \div 2 + 1, hi)

PoolAfterData(S) ==
    KillMany(MakeMany(S, 1, CLICK_PACKET_POOL_SIZE + 1),
             1, CLICK_PACKET_POOL_SIZE)
PoolAfterClones(S) ==
    KillMany(CloneMany(MakeMany(S, 1, 1), 1, 2, CLICK_PACKET_POOL_SIZE + 2),
             2, CLICK_PACKET_POOL_SIZE + 1)

InitPool ==
    /\ \E F \in {PoolAfterData(PoolEmpty), PoolAfterClones(PoolEmpty)} :
          /\ pk = F.pk
          /\ bufs = F.bufs
          /\ pool = F.pool
          /\ pbatch = F.pbatch
          /\ pdbatch = F.pdbatch
          /\ held = F.held
    /\ rel = {}
    /\ last = Rec("init", 0, 0, NoArgs, 0, NoSnap, NoClone)
    /\ nops = 0
    /\ conc = ConcInit
    /\ rg = RingIdle

(* single allocations and releases by the thread, MaxPoolOps of them *)
Running == nops < MaxPoolOps /\ last.op # "cleanup"
PoolMake(t) == Running /\ Make(t)
PoolClone(t) == Running /\ \E h \in held : Clone(t, h)
PoolKill(t) == Running /\ \E h \in held : Kill(t, h)

(* the end of the process: Packet::static_cleanup(); last.res tells       *)
(* whether the assertions of cleanup_pool() on the thread pools held      *)
StaticCleanup ==
    /\ Running
    /\ Commit(static_cleanup(State),
              Rec("cleanup", 0, 0, NoArgs,
                  IF \A t \in Threads : cleanup_asserts(pool[t], FALSE)
                  THEN 1 ELSE 0,
                  NoSnap, NoClone))

NextPool ==
    \E t \in Main :
        \/ PoolMake(t)
        \/ PoolClone(t)
        \/ PoolKill(t)
        \/ StaticCleanup

SpecPool == InitPool /\ [][NextPool]_vars

(* ------------------------- batch releases ----------------------------- *)
(* The batches a caller may release: up to MaxBatch different packets it  *)
(* holds, none of them shared, all from the data pool or none of them.    *)
Batches ==
    {b \in UNION {[1..n -> held] : n \in 1..MaxBatch} :
        /\ \A i, j \in DOMAIN b : i # j => b[i] # b[j]
        /\ \A i \in DOMAIN b :
              /\ pk[b[i]].use_count = 1
              /\ is_from_data_pool(pk[b[i]]) = is_from_data_pool(pk[b[1]])}

RecycleBatch(t) ==
    /\ Running
    /\ \E b \in Batches :
          Commit(recycle_batch([State EXCEPT !.held = @ \ {b[i] : i \in DOMAIN b}],
                               t, b),
                 Rec("recycle_batch", b[1], Len(b), NoArgs, 0, NoSnap, NoClone))

NextBatch ==
    \/ NextPool
    \/ \E t \in Main : RecycleBatch(t)

SpecBatch == InitPool /\ [][NextBatch]_vars

(* -------------------- the registry of thread pools -------------------- *)
(* make_local_packet_pool() called by several threads; every access to    *)
(* the shared words global_packet_pool.lock and .thread_pools is a step.  *)
(* A PacketPool is known by its address, the n-th one made has address n. *)
RegThreads == 1..MaxRegThreads

(* an atomic swap that leaves the lock alone and reports it free *)
swap_none(r, v) == [old |-> 0, r |-> r]

(* atomic_uint32_t::swap(global_packet_pool.lock, v) *)
swap(r, v) == [old |-> r.lock, r |-> [r EXCEPT !.lock = v]]

RegistryInit ==
    [kind |-> "registry", lock |-> 0, thread_pools |-> 0,
     thread_packet_pool |-> [t \in RegThreads |-> 0],
     thread_pool_next |-> [p \in RegThreads |-> 0],
     pp |-> [t \in RegThreads |-> 0],
     pc |-> [t \in RegThreads |-> "idle"],
     waited |-> [t \in RegThreads |-> FALSE],
     made |-> 0, nops |-> 0]

InitRegistry == PacketsInit /\ rg = RegistryInit

(* PacketPool *pp = thread_packet_pool; if (!pp && (pp = new PacketPool)) *)
(* memset(pp, 0, sizeof(PacketPool)); otherwise return pp                 *)
RegCall(t) ==
    /\ rg.pc[t] = "idle"
    /\ rg.nops < MaxRegCalls
    /\ rg' = IF rg.thread_packet_pool[t] # 0
             THEN [rg EXCEPT !.nops = @ + 1]
             ELSE [rg EXCEPT !.nops = @ + 1, !.made = @ + 1,
                             !.pp[t] = rg.made + 1,
                             !.thread_pool_next[rg.made + 1] = 0,
                             !.pc[t] = "swap"]
    /\ RingOnly

(* while (atomic_uint32_t::swap(global_packet_pool.lock, 1) == 1); *)
RegSwap(t) ==
    /\ rg.pc[t] = "swap"
    /\ LET got(x) ==
               IF x.old = 1 THEN [x.r EXCEPT !.waited[t] = TRUE]
               ELSE [x.r EXCEPT !.pc[t] = "next"]
       IN rg' = got(swap(rg, 1))
    /\ RingOnly

(* pp->thread_pool_next = global_packet_pool.thread_pools *)
RegNext(t) ==
    /\ rg.pc[t] = "next"
    /\ rg' = [rg EXCEPT !.thread_pool_next[rg.pp[t]] = rg.thread_pools,
                        !.pc[t] = "head"]
    /\ RingOnly

(* global_packet_pool.thread_pools = pp *)
RegHead(t) ==
    /\ rg.pc[t] = "head"
    /\ rg' = [rg EXCEPT !.thread_pools = rg.pp[t], !.pc[t] = "mine"]
    /\ RingOnly

(* thread_packet_pool = pp *)
RegMine(t) ==
    /\ rg.pc[t] = "mine"
    /\ rg' = [rg EXCEPT !.thread_packet_pool[t] = rg.pp[t], !.pc[t] = "unlock"]
    /\ RingOnly

(* global_packet_pool.lock = 0; return pp *)
RegUnlock(t) ==
    /\ rg.pc[t] = "unlock"
    /\ rg' = [rg EXCEPT !.lock = 0, !.pc[t] = "idle"]
    /\ RingOnly

NextRegistry ==
    \E t \in RegThreads :
        \/ RegCall(t)
        \/ RegSwap(t)
        \/ RegNext(t)
        \/ RegHead(t)
        \/ RegMine(t)
        \/ RegUnlock(t)

SpecRegistry == InitRegistry /\ [][NextRegistry]_vars

(* the pools reached from global_packet_pool.thread_pools, first to last *)
RECURSIVE Registry(_, _, _)
Registry(r, p, n) ==
    IF p = 0 \/ n = 0 THEN << >>
    ELSE <<p>> \o Registry(r, r.thread_pool_next[p], n - 1)

(* ------------------------ the Disorder element ------------------------ *)
(* Disorder(MINDELAY, MAXDELAY) after configure(): MAXDELAY slots, none   *)
(* in use.  sent and arrived are the observer's: the packets put out with *)
(* the value of _count at their arrival and at their output and the delay *)
(* they were given; noplace tells whether the last push() reached the     *)
(* "No place for packet" branch.                                          *)
DisorderInit(mindelay, maxdelay) ==
    [kind |-> "Disorder", _mindelay |-> mindelay, _maxdelay |-> maxdelay,
     _count |-> 0,
     _delay |-> [i \in 0..(maxdelay - 1) |->
                   [p |-> 0, time |-> 0, arrived |-> 0]],
     sent |-> {}, np |-> 1, noplace |-> FALSE]

(* Disorder::push(port, p_in); p_in = 0 is the null pointer run_timer()   *)
(* gives, delay is the value of rand() % (_maxdelay - _mindelay + 1) +    *)
(* _mindelay                                                              *)
Disorder_push(r, p_in, delay) ==
    LET c == r._count + 1
        slots == DOMAIN r._delay
        due == {i \in slots : r._delay[i].time = c}
        empty == {i \in slots : r._delay[i].time # c /\ r._delay[i].time = 0}
        empty_index == IF empty = {} THEN 0 - 1
                       ELSE CHOOSE i \in empty : \A j \in empty : i <= j
        out(p, a, d) == [p |-> p, arrived |-> a, at |-> c, delay |-> d]
        looped == [r EXCEPT
                      !._count = c,
                      !.noplace = FALSE,
                      !._delay = [i \in slots |->
                                    IF i \in due THEN [@[i] EXCEPT !.time = 0]
                                    ELSE @[i]],
                      !.sent = @ \cup
                          {out(r._delay[i].p, r._delay[i].arrived,
                               r._delay[i].time - r._delay[i].arrived)
                              : i \in due}]
    IN IF p_in = 0 THEN looped
       ELSE IF delay = 0
       THEN [looped EXCEPT !.sent = @ \cup {out(p_in, c, delay)}]
       ELSE IF empty_index = 0 - 1
       THEN [looped EXCEPT !.sent = @ \cup {out(p_in, c, delay)},
                           !.noplace = TRUE]
       ELSE [looped EXCEPT !._delay[empty_index] =
                               [p |-> p_in, time |-> c + delay, arrived |-> c]]

InitDisorder ==
    /\ PacketsInit
    /\ \E mindelay \in 0..1, maxdelay \in 1..MaxDelay :
          /\ mindelay <= maxdelay
          /\ rg = DisorderInit(mindelay, maxdelay)

(* a packet comes in *)
DisorderPush ==
    /\ rg._count < MaxEvents
    /\ \E delay \in rg._mindelay..rg._maxdelay :
          rg' = [Disorder_push(rg, rg.np, delay) EXCEPT !.np = @ + 1]
    /\ RingOnly

(* Disorder::run_timer(): push(0, NULL) *)
DisorderTimer ==
    /\ rg._count < MaxEvents
    /\ rg' = Disorder_push(rg, 0, 0)
    /\ RingOnly

NextDisorder == DisorderPush \/ DisorderTimer

SpecDisorder == InitDisorder /\ [][NextDisorder]_vars

(* ----------------------- a full global ring --------------------------- *)
(* The state of one thread that has cloned one packet                     *)
(* (nb + 1) * CLICK_PACKET_POOL_SIZE + 1 times and then released the      *)
(* clones in the order they were made, all but the last: nb batches of    *)
(* CLICK_PACKET_POOL_SIZE clones were spilled into pbatch one after the   *)
(* other and the list of the pool is full again.  make, clone and kill    *)
(* give the objects of the first clone and release; the later ones are    *)
(* the same objects at the next addresses.                                *)
FullHandles ==
    (CLICK_GLOBAL_PACKET_POOL_COUNT + 1) * CLICK_PACKET_POOL_SIZE + 2
        + MaxHandles
ProtoEmpty ==
    [pk |-> Table([h \in 0..2 |-> PacketInit]),
     bufs |-> Table([b \in 0..1 |-> BufInit]),
     pool |-> [t \in Threads |-> PoolInit],
     pbatch |-> RingInit, pdbatch |-> RingInit,
     held |-> {}, rel |-> {}, fail |-> FALSE]
ProtoCloned == CloneMany(MakeMany(ProtoEmpty, 1, 1), 1, 2, 2)
ProtoKilled == KillMany(ProtoCloned, 2, 2)

(* the addresses up to FullBase, the original's excepted, are free *)
FullBase == MaxHandles + 1

(* the j-th batch spilled, newest clone first *)
SpilledBatch(j) ==
    SubSeq([k \in 1..CLICK_PACKET_POOL_SIZE |->
               FullBase + j * CLICK_PACKET_POOL_SIZE + 1 - k],
           1, CLICK_PACKET_POOL_SIZE)

PoolFull(nb) ==
    [pk |-> Table([h \in 0..FullHandles |->
               IF h = 0 THEN PacketInit
               ELSE IF h = 1
               THEN [ProtoKilled.pk[1] EXCEPT !.use_count = 2]
               ELSE IF h <= FullBase THEN PacketInit
               ELSE IF h <= FullBase + (nb + 1) * CLICK_PACKET_POOL_SIZE
               THEN [ProtoKilled.pk[2] EXCEPT !.anno =
                        IF h <= FullBase + nb * CLICK_PACKET_POOL_SIZE
                           /\ (h - FullBase) % CLICK_PACKET_POOL_SIZE = 0
                        THEN CLICK_PACKET_POOL_SIZE ELSE @]
               ELSE IF h = FullBase + (nb + 1) * CLICK_PACKET_POOL_SIZE + 1
               THEN ProtoCloned.pk[2]
               ELSE PacketInit]),
     bufs |-> [b \in 0..MaxBufs |->
                 IF b = 1 THEN ProtoKilled.bufs[1] ELSE BufInit],
     pool |-> [t \in Threads |->
                 IF t = 1
                 THEN [p |-> SpilledBatch(nb + 1),
                       pcount |-> CLICK_PACKET_POOL_SIZE,
                       pd |-> << >>, pdcount |-> 0]
                 ELSE PoolInit],
     pbatch |-> [ring |-> [i \in 0..(CLICK_GLOBAL_PACKET_POOL_COUNT - 1) |->
                             IF i < nb THEN SpilledBatch(i + 1) ELSE << >>],
                 head |-> nb, tail |-> 0],
     pdbatch |-> RingInit,
     held |-> {1, FullBase + (nb + 1) * CLICK_PACKET_POOL_SIZE + 1},
     rel |-> {}, fail |-> FALSE]

InitFull ==
    /\ \E nb \in {CLICK_GLOBAL_PACKET_POOL_COUNT - 1,
                  CLICK_GLOBAL_PACKET_POOL_COUNT} :
          LET start(F) ==
                  /\ pk = F.pk
                  /\ bufs = F.bufs
                  /\ pool = F.pool
                  /\ pbatch = F.pbatch
                  /\ pdbatch = F.pdbatch
                  /\ held = F.held
          IN start(PoolFull(nb))
    /\ rel = {}
    /\ last = Rec("init", 0, 0, NoArgs, 0, NoSnap, NoClone)
    /\ nops = 0
    /\ conc = ConcInit
    /\ rg = RingIdle

FullMake(t) == nops < MaxFullOps /\ Make(t)
FullClone(t) == nops < MaxFullOps /\ \E h \in held : Clone(t, h)
FullKill(t) == nops < MaxFullOps /\ \E h \in held : Kill(t, h)

NextFull ==
    \E t \in Main :
        \/ FullMake(t)
        \/ FullClone(t)
        \/ FullKill(t)

SpecFull == InitFull /\ [][NextFull]_vars

(* --------------- two threads and the global rings --------------------- *)
(* The threads clone and release packets from the state of PoolFull,      *)
(* whose pool of thread 1 is full and whose pool of thread 2 is empty.    *)
(* MPMCRing::extract() is two steps: under the lock it binds the          *)
(* reference v to the slot at tail and adds one to tail (ring.hh:228-233);*)
(* after the release it reads the slot for its return value (line 234).   *)
(* rg.slot[t] is the slot v refers to, rg.h[t] the packet being cloned.   *)
XchgInit ==
    [kind |-> "xchg", pc |-> [t \in Threads |-> "idle"],
     slot |-> [t \in Threads |-> 0], h |-> [t \in Threads |-> 0]]

InitXchg ==
    /\ \E nb \in {CLICK_GLOBAL_PACKET_POOL_COUNT - 1,
                  CLICK_GLOBAL_PACKET_POOL_COUNT} :
          LET start(F) ==
                  /\ pk = F.pk
                  /\ bufs = F.bufs
                  /\ pool = F.pool
                  /\ pbatch = F.pbatch
                  /\ pdbatch = F.pdbatch
                  /\ held = F.held
          IN start(PoolFull(nb))
    /\ rel = {}
    /\ last = Rec("init", 0, 0, NoArgs, 0, NoSnap, NoClone)
    /\ nops = 0
    /\ conc = ConcInit
    /\ rg = XchgInit

CommitXchg(S, rec, r) ==
    /\ ~S.fail
    /\ pk' = S.pk
    /\ bufs' = S.bufs
    /\ pool' = S.pool
    /\ pbatch' = S.pbatch
    /\ pdbatch' = S.pdbatch
    /\ held' = S.held
    /\ rel' = S.rel
    /\ last' = rec
    /\ nops' = nops + 1
    /\ rg' = r
    /\ UNCHANGED conc

(* clone() of h by t up to the release of the lock in pbatch.extract() *)
XchgExtract(t, h) ==
    /\ nops < MaxXchgOps
    /\ rg.pc[t] = "idle"
    /\ h \in held
    /\ pool[t].p = << >>
    /\ ~is_empty(pbatch)
    /\ CommitXchg([State EXCEPT !.pbatch.tail = Add32(@, 1)],
                  Rec("extract", h, 0, NoArgs, 0, NoSnap, NoClone),
                  [rg EXCEPT !.pc[t] = "bound", !.h[t] = h,
                             !.slot[t] = UMod(pbatch.tail,
                                              CLICK_GLOBAL_PACKET_POOL_COUNT)])

(* the rest of that clone(): extract() returns what the slot holds now,   *)
(* pool_allocate() makes it the list of the thread (packet.cc:316-319)    *)
(* and takes its first packet.  last.n is 1 when the packet clone() got   *)
(* is one the elements hold.                                              *)
XchgRead(t) ==
    /\ rg.pc[t] = "bound"
    /\ \E nh \in NewHandle :
          LET got(v) ==
                  [State EXCEPT !.pool[t].p = v,
                                !.pool[t].pcount = pk[Head(v)].anno]
              done(r) ==
                  CommitXchg(r.S,
                             Rec("clone", rg.h[t], IF r.p \in held THEN 1 ELSE 0,
                                 NoArgs, r.p, Snap(rg.h[t]), NoClone),
                             [rg EXCEPT !.pc[t] = "idle"])
          IN done(clone(got(pbatch.ring[rg.slot[t]]), t, rg.h[t], nh))

(* a clone() that finds a packet in the list of the thread, or no batch   *)
(* in the ring                                                            *)
XchgClone(t, h) ==
    /\ nops < MaxXchgOps
    /\ rg.pc[t] = "idle"
    /\ h \in held
    /\ pool[t].p # << >> \/ is_empty(pbatch)
    /\ \E nh \in NewHandle :
          LET done(r) ==
                  CommitXchg(r.S,
                             Rec("clone", h, IF r.p \in held THEN 1 ELSE 0,
                                 NoArgs, r.p, Snap(h), NoClone),
                             rg)
          IN done(clone(State, t, h, nh))

(* kill() of a packet no thread is cloning; check_pool_size() inserts     *)
(* under the lock of the ring                                             *)
XchgKill(t, h) ==
    /\ nops < MaxXchgOps
    /\ rg.pc[t] = "idle"
    /\ h \in held
    /\ \A u \in Threads : rg.pc[u] = "bound" => rg.h[u] # h
    /\ CommitXchg(kill([State EXCEPT !.held = @ \ {h}], t, h),
                  Rec("kill", h, 0, NoArgs, 0, Snap(h), NoClone), rg)

XchgBegin(t) == \E h \in held : XchgExtract(t, h)
XchgCloneAny(t) == \E h \in held : XchgClone(t, h)
XchgKillAny(t) == \E h \in held : XchgKill(t, h)

NextXchg ==
    \E t \in Threads :
        \/ XchgRead(t)
        \/ XchgBegin(t)
        \/ XchgCloneAny(t)
        \/ XchgKillAny(t)

SpecXchg == InitXchg /\ [][NextXchg]_vars

(* ------------- the lock-free ring, one producer, one consumer --------- *)
(* BaseRing (SPSCRing) used by thread 1, which only inserts, and thread   *)
(* 2, which only extracts.  head, tail and the slots are plain memory:    *)
(* every read and write of them is a step.                                *)
(* insert(): read head and tail for has_space(), write the slot, write    *)
(* head.  extract(): read head and tail for is_empty(), bind v to the     *)
(* slot, write tail, return v.  extract() returns a T through the         *)
(* reference v: the build reads the slot after the write of tail, as the  *)
(* statements stand (late), or before it (early is TRUE).                 *)
(* ins are the values insert() has returned true for, outs the values     *)
(* extract() has returned.                                                *)
SpscState(N, early) ==
    [kind |-> "spsc", N |-> N, early |-> early,
     ring |-> [i \in 0..(N - 1) |-> 0], head |-> 0, tail |-> 0,
     pc |-> [t \in Threads |-> "idle"], slot |-> 0, v |-> 0,
     nv |-> 1, nops |-> 0, ins |-> << >>, outs |-> << >>, empties |-> 0]

InitSpsc ==
    /\ PacketsInit
    /\ \E N \in 1..MaxRingSize, early \in BOOLEAN : rg = SpscState(N, early)

(* if (has_space()) *)
ProdTest ==
    /\ rg.pc[1] = "idle"
    /\ rg.nops < MaxSpscOps
    /\ rg' = IF BaseRing_has_space(rg, rg.N)
             THEN [rg EXCEPT !.pc[1] = "store", !.nops = @ + 1]
             ELSE [rg EXCEPT !.nv = @ + 1, !.nops = @ + 1]
    /\ RingOnly

(* ring[head % RING_SIZE] = batch *)
ProdStore ==
    /\ rg.pc[1] = "store"
    /\ rg' = [rg EXCEPT !.ring[UMod(rg.head, rg.N)] = rg.nv, !.pc[1] = "inc"]
    /\ RingOnly

(* head++; return true *)
ProdInc ==
    /\ rg.pc[1] = "inc"
    /\ rg' = [rg EXCEPT !.head = Add32(@, 1), !.pc[1] = "idle",
                        !.ins = Append(@, rg.nv), !.nv = @ + 1]
    /\ RingOnly

(* if (!is_empty()) { T &v = ring[tail % RING_SIZE]; ... } else return 0 *)
ConsTest ==
    /\ rg.pc[2] = "idle"
    /\ rg.nops < MaxSpscOps
    /\ rg' = IF ~is_empty(rg)
             THEN [rg EXCEPT !.pc[2] = "inc", !.nops = @ + 1,
                             !.slot = UMod(rg.tail, rg.N),
                             !.v = IF rg.early
                                   THEN rg.ring[UMod(rg.tail, rg.N)] ELSE 0]
             ELSE [rg EXCEPT !.nops = @ + 1, !.empties = @ + 1]
    /\ RingOnly

(* tail++ *)
ConsInc ==
    /\ rg.pc[2] = "inc"
    /\ rg' = [rg EXCEPT !.tail = Add32(@, 1), !.pc[2] = "return"]
    /\ RingOnly

(* return v *)
ConsReturn ==
    /\ rg.pc[2] = "return"
    /\ rg' = [rg EXCEPT !.pc[2] = "idle", !.v = 0,
                        !.outs = Append(@, IF rg.early THEN rg.v
                                           ELSE rg.ring[rg.slot])]
    /\ RingOnly

NextSpsc ==
    \/ ProdTest
    \/ ProdStore
    \/ ProdInc
    \/ ConsTest
    \/ ConsInc
    \/ ConsReturn

SpecSpsc == InitSpsc /\ [][NextSpsc]_vars

(* ------------------------------ claims ------------------------------- *)
InSeq(h, list) == \E i \in 1..Len(list) : list[i] = h
InRing(h, r) == \E i \in DOMAIN r.ring : InSeq(h, r.ring[i])
Pooled(h) ==
    \/ \E t \in Threads : InSeq(h, pool[t].p) \/ InSeq(h, pool[t].pd)
    \/ InRing(h, pbatch) \/ InRing(h, pdbatch)

(* the packets that refer to o through _data_packet *)
Sharers(o) == {h \in held : pk[h].data_packet = o}

(* C1: every live packet has head <= data <= tail <= end. *)
C1_PointerOrder ==
    \A h \in held :
        0 <= pk[h].data /\ pk[h].data <= pk[h].tail /\ pk[h].tail <= pk[h].end

(* C2: a buffer is released (delete[], destructor callback or return to a *)
(* pool) only when no live packet references it any more.                 *)
C2_ReleaseUnreferenced == \A e \in rel : e.refs = {}

(* C3: every buffer in use has exactly one owning packet, and the owner's *)
(* use count is its own reference, while not yet released, plus the       *)
(* number of live packets that refer to it through _data_packet.          *)
C3_OwnerUseCount ==
    /\ \A b \in Bufs :
          (\E h \in held : pk[h].buf = b) =>
              Cardinality({o \in Handles : pk[o].alloc /\ ~Pooled(o)
                              /\ pk[o].data_packet = 0 /\ pk[o].buf = b}) = 1
    /\ \A o \in Handles :
          (pk[o].alloc /\ ~Pooled(o) /\ pk[o].data_packet = 0
              /\ (o \in held \/ Sharers(o) # {})) =>
              pk[o].use_count =
                  (IF o \in held THEN 1 ELSE 0) + Cardinality(Sharers(o))

(* C4: uniqueify() of a shared packet returns a packet with use count 1   *)
(* and the same visible data, and takes exactly one reference off the     *)
(* original owner.                                                        *)
C4_UniqueifyShared ==
    (last.op = "uniqueify" /\ last.pre.sh) =>
        /\ pk[last.res].use_count = 1
        /\ length(pk[last.res]) = last.pre.len
        /\ Window(State, last.res) = last.pre.win
        /\ pk[last.pre.own].use_count = last.pre.oc - 1

(* C5: clone() and then kill() of the clone leaves the data and length of *)
(* the original as they were and the owner's use count at its value from  *)
(* before the clone.                                                      *)
C5_CloneKill ==
    (last.op = "kill" /\ last.cl.valid) =>
        /\ Window(State, last.cl.orig) = last.cl.pre.win
        /\ length(pk[last.cl.orig]) = last.cl.pre.len
        /\ OwnerOf(State, last.cl.orig) = last.cl.pre.own
        /\ pk[last.cl.pre.own].use_count = last.cl.pre.oc
C5_Witness ==
    /\ last.op = "kill" /\ last.cl.valid
    /\ last.cl.pre.own # last.cl.orig
    /\ DOMAIN last.cl.pre.win # {}

(* C6: the packet returned by make(), uniqueify(), push() or put() has    *)
(* use count 1, no _data_packet, and a buffer no other live packet        *)
(* references.                                                            *)
C6_ReturnedUnshared ==
    (last.op \in {"make", "make_foreign", "uniqueify", "push", "put"}) =>
        /\ pk[last.res].use_count = 1
        /\ pk[last.res].data_packet = 0
        /\ \A h \in held \ {last.res} : pk[h].buf # pk[last.res].buf

(* every thread has made and killed its clones and the original is killed *)
Done7 ==
    /\ conc.origdead
    /\ \A t \in Threads :
          /\ conc.made[t] = ClonesPerThread
          /\ conc.mine[t] = {}
          /\ conc.pc[t] = "idle"

(* C7: two threads clone one packet and kill the clones and the original  *)
(* in any interleaving: no use count goes below zero, the buffer is not   *)
(* released while a packet still refers to it nor released twice, and at  *)
(* the end it has been released exactly once.                             *)
C7_ConcurrentRelease ==
    /\ \A h \in Handles : pk[h].use_count >= 0
    /\ \A e \in rel :
          /\ e.refs = {}
          /\ e.waslive
          /\ \A t \in Threads :
                conc.pc[t] = "clone_inc" => pk[conc.cur[t]].buf # e.buf
    /\ conc.nrel <= 1
    /\ Done7 => conc.nrel = 1
C7_Witness ==
    /\ Done7
    /\ conc.nrel = 1
    /\ \A t \in Threads : conc.made[t] >= 1

(* C8: push(n) with n above the headroom returns a packet of length       *)
(* old length + n whose last (old length) bytes are the data from before. *)
C8_ExpensivePush ==
    (last.op = "push" /\ ULt(last.pre.hr, last.n)) =>
        /\ length(pk[last.res]) = last.pre.len + last.n
        /\ LET W == Window(State, last.res)
           IN [i \in {j - last.n : j \in {k \in DOMAIN W : k >= last.n}} |->
                  W[i + last.n]] = last.pre.win

(* the sum of three uint32_t words, taken without wraparound, is <= k *)
TrueSumLe(a, b, c, k) ==
    /\ a >= 0 /\ b >= 0 /\ c >= 0
    /\ a <= k /\ b <= k /\ c <= k
    /\ a + b + c <= k

(* C9: make(headroom, data, length, tailroom) takes a pooled standard     *)
(* buffer iff headroom + length + tailroom <= 2048; the packet has the    *)
(* requested headroom and length, at least the requested tailroom and a   *)
(* buffer of at least min_buffer_length.                                  *)
C9_MakeSizes ==
    (last.op = "make") =>
        /\ last.pooled = TrueSumLe(last.a.headroom, last.a.length,
                                   last.a.tailroom, CLICK_PACKET_POOL_BUFSIZ)
        /\ headroom(pk[last.res]) = last.a.headroom
        /\ length(pk[last.res]) = last.a.length
        /\ ULe(last.a.tailroom, tailroom(pk[last.res]))
        /\ ULe(min_buffer_length, buffer_length(pk[last.res]))

(* C10: a packet returned by either make() has annotations zero, header   *)
(* pointers null, no _data_packet and use count 1, whatever the object    *)
(* held before.                                                           *)
C10_FreshPacket ==
    (last.op \in {"make", "make_foreign"}) =>
        /\ pk[last.res].anno = 0
        /\ ~pk[last.res].has_mac
        /\ pk[last.res].data_packet = 0
        /\ pk[last.res].use_count = 1
C10_Witness ==
    /\ last.op \in {"make", "make_foreign"}
    /\ last.old.anno # 0

(* C11: the destructor of a caller's buffer is called only when no live   *)
(* packet refers to the buffer any more, at most once, with the buffer's   *)
(* length; such a buffer is released in no other way, is never put into a *)
(* pool, and does not outlive its last reference.                         *)
C11_ForeignCallback ==
    /\ \A e \in rel :
          (e.foreign /\ e.dtor # 0) =>
              /\ e.how = "callback"
              /\ e.refs = {}
              /\ e.waslive
              /\ e.len = bufs[e.buf].cap
    /\ \A b \in Bufs :
          (bufs[b].live /\ bufs[b].foreign /\ bufs[b].dtor # 0) =>
              /\ \E h \in held : pk[h].buf = b
              /\ \A h \in Handles : Pooled(h) => pk[h].buf # b

(* C12: a caller's buffer given with a null destructor is released by     *)
(* delete[], whatever its length.                                         *)
C12_ForeignDelete ==
    \A e \in rel : (e.foreign /\ e.dtor = 0) => e.how = "delete"

(* C14: on a ring of capacity N used by one producer and one consumer an  *)
(* insert succeeds while fewer than N values are waiting and fails at N,  *)
(* and an extract returns the oldest waiting value.                       *)
C14_RingFifo ==
    /\ rg.last.op = "insert" => (rg.last.ok <=> Len(rg.last.q) < rg.N)
    /\ (rg.last.op = "extract" /\ rg.last.q # << >>) =>
           rg.last.v = Head(rg.last.q)

(* C15: insert(v) fails iff head - tail = N; a failed insert changes      *)
(* nothing; a successful one stores v at slot head % N and adds one to    *)
(* head.                                                                  *)
C15_InsertContract ==
    rg.last.op = "insert" =>
        /\ (~rg.last.ok) <=> (Sub32(rg.last.head, rg.last.tail) = rg.N)
        /\ rg.tail = rg.last.tail
        /\ (~rg.last.ok) => (rg.head = rg.last.head /\ rg.ring = rg.last.ring)
        /\ rg.last.ok =>
              /\ rg.head = Add32(rg.last.head, 1)
              /\ rg.ring = [rg.last.ring EXCEPT
                               ![UMod(rg.last.head, rg.N)] = rg.last.v]
C15_Witness ==
    /\ rg.last.op = "insert" /\ ~rg.last.ok
    /\ rg.N > 1 /\ rg.tail < 0 /\ rg.head >= 0

(* C16: extract() returns 0 iff head = tail (0 is never stored); on an    *)
(* empty ring it changes nothing; otherwise it returns the value of slot  *)
(* tail % N and adds one to tail.                                         *)
C16_ExtractContract ==
    rg.last.op = "extract" =>
        /\ (rg.last.v = 0) <=> (rg.last.head = rg.last.tail)
        /\ rg.head = rg.last.head /\ rg.ring = rg.last.ring
        /\ (rg.last.head = rg.last.tail) => rg.tail = rg.last.tail
        /\ (rg.last.head # rg.last.tail) =>
              /\ rg.last.v = rg.last.ring[UMod(rg.last.tail, rg.N)]
              /\ rg.tail = Add32(rg.last.tail, 1)
C16_Witness ==
    /\ rg.last.op = "extract" /\ rg.last.v = 0
    /\ rg.nv > 1

(* C17: where head or tail have passed 2^32 - 1 and started again from 0, *)
(* the ring is still found full exactly with N waiting values and empty   *)
(* exactly with none, and values still come out in insertion order.       *)
C17_Wraparound ==
    (rg.start # 0 /\ rg.last.op # "none") =>
        /\ rg.last.op = "insert" => (rg.last.ok <=> Len(rg.last.q) < rg.N)
        /\ rg.last.op = "extract" =>
              rg.last.v = (IF rg.last.q = << >> THEN 0 ELSE Head(rg.last.q))
        /\ (rg.head = rg.tail) <=> (rg.q = << >>)
        /\ (Sub32(rg.head, rg.tail) = rg.N) <=> (Len(rg.q) = rg.N)

(* the values in the slots from tail up to head *)
RECURSIVE Waiting(_, _)
Waiting(r, k) ==
    IF k = 0 THEN << >>
    ELSE Append(Waiting(r, k - 1),
                r.ring[UMod(Add32(r.tail, k - 1), r.N)])

SeqSet(q) == {q[i] : i \in 1..Len(q)}
NoDup(q) == \A i, j \in 1..Len(q) : q[i] = q[j] => i = j

(* C13: with several threads inserting into and extracting from a locked  *)
(* ring, head - tail stays within 0..N, no value is returned twice, and   *)
(* once every call has returned the inserted values are exactly the       *)
(* returned ones plus the ones still waiting, each once.                  *)
C13_NoLossNoDup ==
    /\ ULe(count(rg), rg.N)
    /\ NoDup(rg.outs)
    /\ SeqSet(rg.outs) \subseteq rg.ins
    /\ (\A t \in Threads : rg.pc[t] = "idle") =>
          LET w == Waiting(rg, count(rg))
          IN /\ NoDup(w)
             /\ SeqSet(w) \cap SeqSet(rg.outs) = {}
             /\ SeqSet(w) \cup SeqSet(rg.outs) = rg.ins

(* C18: in SMPMCRing at most one thread is between acquire_head() and     *)
(* release_head() and at most one between acquire_tail() and              *)
(* release_tail(); the two locks are held independently.                  *)
C18_SplitLocks ==
    rg.kind = "SMPMCRing" =>
        /\ Cardinality({t \in Threads :
                           rg.pc[t] \in {"ins_store", "ins_head"}}) <= 1
        /\ Cardinality({t \in Threads : rg.pc[t] = "ext_tail"}) <= 1
        /\ \A t \in Threads :
              /\ rg.pc[t] \in {"ins_store", "ins_head"} =>
                     rg.locks["_lock_head"] = t
              /\ rg.pc[t] = "ext_tail" => rg.locks["_lock_tail"] = t
C18_Witness ==
    /\ rg.kind = "SMPMCRing"
    /\ \E t, u \in Threads :
          /\ t # u
          /\ rg.pc[t] \in {"ins_store", "ins_head"}
          /\ rg.pc[u] = "ext_tail"
          /\ rg.locks["_lock_head"] = t /\ rg.locks["_lock_tail"] = u

(* the objects reached from o through the prev pointers, newest first *)
RECURSIVE Chain(_, _, _)
Chain(r, o, k) ==
    IF o = 0 \/ k = 0 THEN << >>
    ELSE << o >> \o Chain(r, r.prev[o], k - 1)

Reverse(q) == [i \in 1..Len(q) |-> q[Len(q) + 1 - i]]

(* C19: MPMCLIFO used by several threads is a bounded stack: insert fails *)
(* and changes nothing exactly when MAX_SIZE values are held, extract     *)
(* returns 0 exactly when the stack is empty, and otherwise returns the   *)
(* value inserted last among those not yet extracted.                     *)
C19_BoundedStack ==
    /\ rg._count = Len(rg.q)
    /\ rg._count <= rg.MAX_SIZE
    /\ Chain(rg, rg._first, Len(rg.q) + 1) = Reverse(rg.q)
    /\ rg.last.op = "insert" =>
          /\ rg.last.ok <=> Len(rg.last.q) < rg.MAX_SIZE
          /\ ~rg.last.ok =>
                /\ rg._first = rg.last._first
                /\ rg._count = rg.last._count
                /\ rg.prev = rg.last.prev
          /\ rg.last.ok => rg._first = rg.last.v
    /\ rg.last.op = "extract" =>
          /\ rg.last.v = 0 <=> Len(rg.last.q) = 0
          /\ rg.last.v # 0 => rg.last.v = rg.last.q[Len(rg.last.q)]
C19_Witness ==
    /\ rg.last.op = "extract"
    /\ rg.last.v # 0
    /\ Len(rg.last.q) >= 2
    /\ rg.by[rg.last.v] # rg.last.t
    /\ rg.by[rg.last.q[1]] = rg.last.t

AllocOrder(list, ring, list2, n2, ring2, p) ==
    IF list # << >>
    THEN /\ p = Head(list)
         /\ list2 = Tail(list)
         /\ ring2 = ring
    ELSE IF ~is_empty(ring)
    THEN /\ p = Head(Ring_extract(ring).v)
         /\ list2 = Tail(Ring_extract(ring).v)
         /\ n2 = Sub32(pk[p].anno, 1)
         /\ ring2 = Ring_extract(ring).r
    ELSE /\ ~pk[p].alloc
         /\ pk'[p].alloc
         /\ list2 = << >>
         /\ ring2 = ring

C21_Step ==
    /\ (last'.op = "clone" \/ (last'.op = "make" /\ ~last'.pooled)) =>
          /\ AllocOrder(pool[1].p, pbatch, pool'[1].p, pool'[1].pcount,
                        pbatch', last'.res)
          /\ pool'[1].pd = pool[1].pd /\ pdbatch' = pdbatch
    /\ (last'.op = "make" /\ last'.pooled) =>
          /\ AllocOrder(pool[1].pd, pdbatch, pool'[1].pd, pool'[1].pdcount,
                        pdbatch', last'.res)
          /\ pool'[1].p = pool[1].p /\ pbatch' = pbatch

(* C21: an allocation pops the thread's list when it is not empty; when   *)
(* it is empty it takes one batch from the matching global ring and       *)
(* adopts it with the count stored in it; when that ring is empty too it  *)
(* takes a new packet from the backend.                                   *)
C21_AllocationOrder == [][C21_Step]_vars
C21_Witness ==
    /\ last.op = "make"
    /\ last.pooled
    /\ pdbatch.head = 1 /\ pdbatch.tail = 1
    /\ pool[1].pdcount = CLICK_PACKET_POOL_SIZE - 1
    /\ Len(pool[1].pd) = CLICK_PACKET_POOL_SIZE - 1

(* what check_pool_size() followed by the push of the released packet h   *)
(* does to a list that is at its bound                                    *)
Spill(list, n, ring, list2, n2, ring2, h) ==
    /\ list2 = <<h>>
    /\ n2 = 1
    /\ IF has_space(ring)
       THEN /\ ring2.ring[UMod(ring.head, CLICK_GLOBAL_PACKET_POOL_COUNT)] = list
            /\ ring2.head = Add32(ring.head, 1)
            /\ ring2.tail = ring.tail
            /\ pk'[Head(list)].anno = n
            /\ \A i \in 1..Len(list) : pk'[list[i]].alloc
       ELSE /\ ring2 = ring
            /\ \A i \in 1..Len(list) : ~pk'[list[i]].alloc

AtBound(list, n) == list # << >> /\ ULe(CLICK_PACKET_POOL_SIZE, n)

C22_Step ==
    (last'.op = "kill" /\ pk[last'.h].use_count = 1) =>
        IF is_from_data_pool(pk[last'.h])
        THEN AtBound(pool[1].pd, pool[1].pdcount) =>
                Spill(pool[1].pd, pool[1].pdcount, pdbatch,
                      pool'[1].pd, pool'[1].pdcount, pdbatch', last'.h)
        ELSE AtBound(pool[1].p, pool[1].pcount) =>
                Spill(pool[1].p, pool[1].pcount, pbatch,
                      pool'[1].p, pool'[1].pcount, pbatch', last'.h)

(* C22: a release that finds the list it targets at its bound stores the  *)
(* element count in the head of the list and gives the whole list to the  *)
(* matching global ring as one slot; when that ring is full every packet  *)
(* of the list is freed; either way the list is emptied with count 0, so  *)
(* that it holds the released packet alone afterwards.                    *)
C22_SpillOrFree == [][C22_Step]_vars
C22_Witness ==
    /\ last.op = "kill"
    /\ pbatch.head = CLICK_GLOBAL_PACKET_POOL_COUNT /\ pbatch.tail = 0
    /\ pool[1].p = <<last.h>> /\ pool[1].pcount = 1
    /\ ~pk[SpilledBatch(CLICK_GLOBAL_PACKET_POOL_COUNT + 1)[1]].alloc
    /\ ~pk[SpilledBatch(CLICK_GLOBAL_PACKET_POOL_COUNT + 1)[CLICK_PACKET_POOL_SIZE]].alloc

(* C23: after static_cleanup() the lists of every thread pool are empty   *)
(* and so are the ring of packet batches and the ring of data batches.    *)
C23_TeardownFreesAll ==
    last.op = "cleanup" =>
        /\ \A t \in Threads : pool[t] = PoolInit
        /\ is_empty(pbatch)
        /\ is_empty(pdbatch)

(* C24: after any sequence of pool allocations, single releases and batch *)
(* releases the assertions of cleanup_pool() hold for every thread pool   *)
(* (each list has as many packets as its count says, at most              *)
(* CLICK_PACKET_POOL_SIZE) and no batch in a global ring has more than    *)
(* CLICK_PACKET_POOL_SIZE packets.                                        *)
C24_TeardownAssertions ==
    /\ \A t \in Threads : cleanup_asserts(pool[t], FALSE)
    /\ \A i \in DOMAIN pbatch.ring :
          cleanup_asserts([PoolInit EXCEPT !.p = pbatch.ring[i]], TRUE)
    /\ \A i \in DOMAIN pdbatch.ring :
          cleanup_asserts([PoolInit EXCEPT !.pd = pdbatch.ring[i]], TRUE)

(* C25: when the backend has no memory for the buffer, make() returns     *)
(* null and the caller holds no packet from the attempt.                  *)
C25_NoMemReturnsNull ==
    last.op = "make_nomem" => last.res = 0 /\ held \cap {last.res} = {}

(* C26: a thread that is not inside insert or extract holds no lock of    *)
(* the container, whether its call found room, an element, a full or an   *)
(* empty container; under fair scheduling every lock taken is released    *)
(* and every call returns.                                                *)
C26_LocksReleased ==
    /\ [](\A t \in Threads : rg.pc[t] \in {"idle", "ext_return"} => ~Holds(t))
    /\ \A t \in Threads : Holds(t) ~> ~Holds(t)
    /\ \A t \in Threads : (rg.pc[t] # "idle") ~> (rg.pc[t] = "idle")
C26_Witness ==
    /\ rg.kind = "MPMCLIFO"
    /\ rg.last.op = "insert"
    /\ ~rg.last.ok
    /\ rg._count = rg.MAX_SIZE
    /\ \A t \in Threads : rg.pc[t] = "idle" /\ ~Holds(t)

(* the byte at offset o of a buffer, -1 where the buffer holds nothing    *)
(* determined                                                             *)
Byte(mem, o) == IF o \in DOMAIN mem THEN mem[o] ELSE 0 - 1

(* the MAC header offset of Q in buffer C is that of P in buffer B moved  *)
(* with the content: moved is how far the data pointer went down          *)
Reanchored(P, B, Q, C, moved) ==
    IF P.has_mac
    THEN /\ Q.has_mac
         /\ 0 <= Q.mac /\ Q.mac < C.cap
         /\ Byte(C.mem, Q.mac) = Byte(B.mem, P.mac)
         /\ Q.mac - Q.data = P.mac - P.data + moved
    ELSE ~Q.has_mac

C27_Step ==
    (/\ last'.op \in {"uniqueify", "push", "put", "shift_data"}
     /\ last'.res # 0
     /\ pk'[last'.res].buf # pk[last'.h].buf) =>
        Reanchored(pk[last'.h], bufs[pk[last'.h].buf],
                   pk'[last'.res], bufs'[pk'[last'.res].buf],
                   IF last'.op = "push" THEN last'.n ELSE 0)

(* C27: after uniqueify of a shared packet and after a push, put or       *)
(* shift_data that takes a new buffer, a MAC header offset that was set   *)
(* lies in the new                                                        *)
(* buffer, at the same distance from the packet data as before, on the    *)
(* same byte of content; one that was not set stays not set.              *)
C27_HeadersReanchored == [][C27_Step]_vars

(* C28: a thread makes its pool on its first call of                      *)
(* make_local_packet_pool() and never again, and whatever the             *)
(* interleaving of first calls, the registry holds the pool of every      *)
(* thread that has linked its pool, each exactly once.                    *)
C28_RegisteredOnce ==
    LET reg == Registry(rg, rg.thread_pools, MaxRegThreads + 1)
        linked == {t \in RegThreads : rg.pc[t] \in {"mine", "unlock"}
                                      \/ rg.thread_packet_pool[t] # 0}
    IN /\ Len(reg) = Cardinality(linked)
       /\ {reg[i] : i \in 1..Len(reg)} = {rg.pp[t] : t \in linked}
       /\ \A t \in RegThreads :
             rg.thread_packet_pool[t] # 0 => rg.thread_packet_pool[t] = rg.pp[t]
       /\ \A t, u \in RegThreads : t # u /\ rg.pp[t] # 0 => rg.pp[t] # rg.pp[u]
       /\ rg.made = Cardinality({t \in RegThreads : rg.pp[t] # 0})
C28_Witness ==
    /\ \A t \in RegThreads : rg.pc[t] = "idle" /\ rg.thread_packet_pool[t] # 0
    /\ \E t \in RegThreads : rg.waited[t]
    /\ Len(Registry(rg, rg.thread_pools, MaxRegThreads + 1)) = MaxRegThreads
    /\ rg.nops > MaxRegThreads

(* C29: every packet Disorder has put out left at least MINDELAY and at   *)
(* most MAXDELAY push or timer events after the push that brought it,     *)
(* and no packet it still holds has waited MAXDELAY events or more.       *)
C29_DelayWithinBounds ==
    /\ \A e \in rg.sent :
          /\ e.at - e.arrived >= rg._mindelay
          /\ e.at - e.arrived <= rg._maxdelay
    /\ \A i \in DOMAIN rg._delay :
          rg._delay[i].time # 0 =>
              rg._count - rg._delay[i].arrived < rg._maxdelay

(* C30: the packet expensive_uniqueify(extra_headroom, extra_tailroom)    *)
(* returns has the old headroom plus extra_headroom, the old length and   *)
(* at least the old tailroom plus extra_tailroom.  Seen through its       *)
(* callers: uniqueify() of a shared packet keeps headroom and length and  *)
(* loses no tailroom; put(n) with n above the tailroom keeps the          *)
(* headroom, has length old + n, and its tail is within the buffer.       *)
C30_ReallocRoom ==
    /\ (last.op = "uniqueify" /\ last.pre.sh) =>
          /\ headroom(pk[last.res]) = last.pre.hr
          /\ length(pk[last.res]) = last.pre.len
          /\ ULe(last.pre.tr, tailroom(pk[last.res]))
    /\ (last.op = "put" /\ ULt(last.pre.tr, last.n)) =>
          /\ headroom(pk[last.res]) = last.pre.hr
          /\ length(pk[last.res]) = last.pre.len + last.n
          /\ pk[last.res].tail <= pk[last.res].end
          /\ ULe(last.pre.tr + PushSlack, tailroom(pk[last.res]))

(* the header pointers of P that lie in its buffer before its data        *)
Preserved(P) ==
    {x \in {mac_header(P), network_header(P), transport_header(P)} :
        x # NullPtr /\ x >= 0 /\ x <= P.end /\ x < P.data}
(* the lowest of these and of the data pointer *)
LowestPreserved(P) ==
    CHOOSE x \in Preserved(P) \cup {P.data} :
        \A y \in Preserved(P) \cup {P.data} : x <= y
(* unshared, and room for the shift *)
RoomSuffices(P, offset) ==
    /\ ~shared(P)
    /\ IF offset < 0 THEN LowestPreserved(P) >= -offset
       ELSE ULe(offset, tailroom(P))

(* C31: shift_data(0) returns the packet as it was; shift_data(offset)    *)
(* on an unshared packet with room (tailroom >= offset, or for a negative *)
(* offset -offset bytes below the lowest preserved pointer) returns the   *)
(* same packet on the same buffer, with the same length and content and   *)
(* data and tail moved by offset; any other shift_data returns a packet   *)
(* on a new buffer, or none.                                              *)
C31_ShiftInPlace ==
    last.op = "shift_data" =>
        IF last.n = 0
        THEN last.res = last.h /\ pk[last.h] = last.old
        ELSE IF RoomSuffices(last.old, last.n)
        THEN /\ last.res = last.h
             /\ pk[last.h].buf = last.old.buf
             /\ length(pk[last.h]) = last.pre.len
             /\ pk[last.h].data = last.old.data + last.n
             /\ pk[last.h].tail = last.old.tail + last.n
             /\ Window(State, last.h) = last.pre.win
        ELSE /\ last.res \in Handles \cup {0}
             /\ last.res # 0 => pk[last.res].buf # last.old.buf

C32_Step ==
    (/\ last'.op = "shift_data"
     /\ last'.n # 0
     /\ \/ last'.res = Fault
        \/ last'.res = last'.h /\ pk'[last'.h].buf = pk[last'.h].buf) =>
        /\ last'.res # Fault
        /\ LowestPreserved(pk[last'.h]) + last'.n >= 0
        /\ \A x \in Preserved(pk'[last'.h]) \cup
                    {y + last'.n : y \in Preserved(pk[last'.h])} : x >= 0
        /\ {y + last'.n : y \in Preserved(pk[last'.h])}
               \subseteq {mac_header(pk'[last'.h]), network_header(pk'[last'.h]),
                          transport_header(pk'[last'.h])}
        /\ \A o \in LowestPreserved(pk[last'.h])..(pk[last'.h].tail - 1) :
              Byte(bufs'[pk[last'.h].buf].mem, o + last'.n)
                  = Byte(bufs[pk[last'.h].buf].mem, o)

(* C32: when shift_data(offset) shifts in place, the lowest of the data   *)
(* pointer and of the MAC, network and transport header pointers that lie *)
(* in the buffer before the data is, moved by offset, not below the       *)
(* buffer start, every such header pointer has moved by offset, and the   *)
(* bytes from that lowest pointer to the end of the data have moved with  *)
(* them.                                                                  *)
C32_HeadersStayInside == [][C32_Step]_vars

(* the batches waiting in a ring: the slots from tail up to head *)
Waiting32(r) ==
    {UMod(Add32(r.tail, i), CLICK_GLOBAL_PACKET_POOL_COUNT) :
        i \in 0..(Sub32(r.head, r.tail) - 1)}
(* the lists of the threads and the batches waiting in the two rings, the *)
(* empty ones left out                                                    *)
Places ==
    {<<"p", t>> : t \in {u \in Threads : pool[u].p # << >>}}
    \cup {<<"pd", t>> : t \in {u \in Threads : pool[u].pd # << >>}}
    \cup {<<"pbatch", i>> : i \in {j \in Waiting32(pbatch) : pbatch.ring[j] # << >>}}
    \cup {<<"pdbatch", i>> : i \in {j \in Waiting32(pdbatch) : pdbatch.ring[j] # << >>}}
PlaceList(x) ==
    IF x[1] = "p" THEN pool[x[2]].p
    ELSE IF x[1] = "pd" THEN pool[x[2]].pd
    ELSE IF x[1] = "pbatch" THEN pbatch.ring[x[2]]
    ELSE pdbatch.ring[x[2]]
EndOf(list) == list[Len(list)]

(* C33: while two threads clone and release packets and exchange batches  *)
(* through the global rings, every packet is in at most one place: in the *)
(* list of one thread, or in one batch waiting in a ring, or held by the  *)
(* elements; and clone() never gets a packet the elements hold.  A list   *)
(* changes at its front only, or is handed over whole: two places share a *)
(* packet when they end with the same packet, or when a packet is put at  *)
(* the front of a list while another place has it.                        *)
C33_OnePlace ==
    /\ \A x, y \in Places :
          EndOf(PlaceList(x)) = EndOf(PlaceList(y)) => x = y
    /\ \A h \in held : \A x \in Places : ~InSeq(h, PlaceList(x))
    /\ last.op = "clone" => last.n = 0

(* the values waiting in the lock-free ring, oldest first *)
SpscWaiting ==
    [i \in 1..Sub32(rg.head, rg.tail) |->
        rg.ring[UMod(Add32(rg.tail, i - 1), rg.N)]]

(* C34: with one thread inserting into and one thread extracting from the *)
(* lock-free ring, whatever the interleaving of their reads and writes,   *)
(* the values extract() has returned are the first of the values          *)
(* insert() has accepted, in the order of their insertion, and when no    *)
(* call is under way the others are waiting in the ring in that order.    *)
C34_SpscFifo ==
    /\ Len(rg.outs) <= Len(rg.ins)
    /\ \A i \in 1..Len(rg.outs) : rg.outs[i] = rg.ins[i]
    /\ (\A t \in Threads : rg.pc[t] = "idle") =>
          rg.ins = rg.outs \o SpscWaiting

(* C35: a packet the elements hold that refers to another through        *)
(* _data_packet has use count 1, and the packet it refers to is another   *)
(* packet that refers to none: a clone of a clone refers to the origin.   *)
C35_SharingDepthOne ==
    \A h \in held :
        pk[h].data_packet # 0 =>
            /\ pk[h].use_count = 1
            /\ pk[h].data_packet # h
            /\ pk[pk[h].data_packet].data_packet = 0
C35_Witness ==
    /\ last.op = "clone"
    /\ last.pre.own # last.h
    /\ {last.h, last.res} \subseteq held
    /\ pk[last.res].data_packet = last.pre.own
    /\ pk[last.h].data_packet = last.pre.own
    /\ pk[last.pre.own].use_count = 3

(* C36: every buffer new[] gave and delete[] has not taken back is the    *)
(* buffer of a packet that has not been deleted: when the packets of a    *)
(* data list are deleted, at teardown or because the ring is full, their  *)
(* buffers are released with them.                                        *)
C36_NoBufferLeak ==
    {b \in DOMAIN bufs \ {0} : bufs[b].live /\ ~bufs[b].foreign}
        \subseteq {pk[h].buf : h \in {x \in DOMAIN pk : pk[x].alloc}}

(* the packets of the data lists and of the lists of packets without      *)
(* buffer, of the threads and of the batches waiting in the rings         *)
DataListed ==
    UNION ({SeqSet(pool[t].pd) : t \in Threads}
           \cup {SeqSet(pdbatch.ring[i]) : i \in Waiting32(pdbatch)})
ShellListed ==
    UNION ({SeqSet(pool[t].p) : t \in Threads}
           \cup {SeqSet(pbatch.ring[i]) : i \in Waiting32(pbatch)})

(* C37: a packet of a data list has a live buffer of at least             *)
(* CLICK_PACKET_POOL_BUFSIZ bytes, no destructor and no _data_packet; a   *)
(* packet of a list of packets without buffer has none; and a buffer is   *)
(* not the buffer of two packets, held or listed, unless they share it    *)
(* through the same origin (a packet and its clones).                     *)
C37_ListsSegregated ==
    /\ \A h \in DataListed :
          /\ pk[h].buf # 0
          /\ bufs[pk[h].buf].live
          /\ bufs[pk[h].buf].cap >= CLICK_PACKET_POOL_BUFSIZ
          /\ pk[h].destructor = 0
          /\ pk[h].data_packet = 0
    /\ \A h \in ShellListed : pk[h].buf = 0
    /\ \A h \in DataListed \cup held : \A g \in DataListed \cup held :
          (pk[h].buf # 0 /\ pk[h].buf = pk[g].buf) =>
              OwnerOf(State, h) = OwnerOf(State, g)

(* C38: make(headroom, data, length, tailroom) takes a buffer of the pool  *)
(* only if headroom + length + tailroom, summed without wraparound, is at  *)
(* most CLICK_PACKET_POOL_BUFSIZ, and the packet it returns has            *)
(* headroom + length <= buffer_length.                                     *)
C38_SizeOnTrueSum ==
    (last.op = "make") =>
        /\ last.pooled =>
              TrueSumLe(last.a.headroom, last.a.length, last.a.tailroom,
                        CLICK_PACKET_POOL_BUFSIZ)
        /\ headroom(pk[last.res]) >= 0
        /\ length(pk[last.res]) >= 0
        /\ headroom(pk[last.res]) + length(pk[last.res])
              <= buffer_length(pk[last.res])

(* C39: Disorder finds a free slot for every packet it gives a non-zero    *)
(* delay: no push() reaches the "No place for packet" branch, and no       *)
(* packet is put out fewer events after its arrival than the delay it was  *)
(* given.                                                                  *)
C39_PlaceForPacket ==
    /\ ~rg.noplace
    /\ \A e \in rg.sent : e.at - e.arrived >= e.delay

====
